---- MODULE Spec2Model ----
(***************************************************************************)
(* Model of the tool-calling agent loop (app/llm/agent_2.py), of the       *)
(* process-wide progress sink it reports to, and of the background job     *)
(* runner (app/core/jobs.py) that binds the sink around a loop run; and of *)
(* the tools the loop calls: the two-stage hybrid search                   *)
(* (app/services/search.py, app/services/search_combined.py) and the two   *)
(* fetch tools, with the storage pool they take their connections from.    *)
(*                                                                         *)
(* A run is one invocation of agent_loop.  The loop is a coroutine: it is  *)
(* suspended at the model-inference call and at each awaited tool, and     *)
(* everything between two suspension points is one atomic step.            *)
(***************************************************************************)
EXTENDS Integers, Sequences, FiniteSets, TLC

\* ---------------------------------------------------------------- bounds
\* largest max_turns a run is started with
MaxTurns == 3
\* most tool calls the model requests in one assistant message
MaxCalls == 2
\* longest conversation the model is still asked to extend with tool calls
MaxHistory == 8
\* the same three bounds for the runs of the concurrent specification
MaxTurnsConc == 2
MaxCallsConc == 1
MaxHistoryConc == 4
\* longest conversation extended with tool calls in the fair specification
MaxHistoryTerm == 6
\* most rows the stage-1 query of a search returns
MaxCandidates == 3
\* most rows of table refresh_tokens
MaxRows == 3
\* the last second of the clock
MaxNow == 1

\* ------------------------------------------------------------- constants
None == "None"
Runs == {"r1", "r2"}

\* app/llm/agent_2.py FUNCTIONS: the names the registry knows
FUNCTIONS == {"fetch_articles", "get_related_articles", "combined_search"}

\* the return value of agent_loop when the turns are exhausted
FALLBACK == "fallback: goal not reached"

\* the first message of every conversation
SYSTEM_PROMPT == "system instructions"

\* tool names the model may ask for: one registered, one not
NamesTried == {"fetch_articles", "drop_articles"}
\* the arguments string of a tool call: valid JSON object or not parseable
ArgsTried == {"json", "malformed"}
\* non-empty textual contents the model may answer with
Contents == {"answer", "other answer"}
Goals == {"goal"}

\* A float is an exact fraction <<numerator, denominator>> in lowest terms with
\* a positive denominator; NULL is the SQL NULL / Python None of a row field.
NULL == <<>>
\* the two implementations of combined_search
Variants == {"search", "search_combined"}
\* values of the alpha argument
AlphasTried == {<<0, 1>>, <<7, 10>>, <<1, 1>>}
\* values of the limit argument
LimitsTried == {0, 1, 5}
\* values of the preselect argument, around both ends of the clamp
PreselectsTried == {-5, 0, 9, 50, 2001}
\* vector distances of stage-1 rows
DistancesTried == {<<0, 1>>, <<1, 10>>, <<1, 2>>, <<9, 10>>}
\* ts_rank_cd values of stage-2 rows
FtScoresTried == {NULL, <<0, 1>>, <<1, 5>>, <<4, 5>>}
\* ts_rank_cd values of long articles that repeat the query's terms
FtScoresHigh == {<<8, 1>>, <<9, 1>>}
\* what the embedding provider hands back: a vector, an empty one, nothing
EmbeddingsTried == {"vector", "empty", None}
\* values of max_turns for the job of POST /agent-loop/start
TurnsTried == {0, 1}
\* the method argument of get_related_articles_agent
MethodsTried == {"semantic", "keywords"}

VARIABLES
    pc,             \* run -> idle | queued | infer | tool | exited
    entry,          \* run -> how agent_loop is invoked: None | direct | job
    max_turns,      \* run -> the max_turns argument
    turn,           \* run -> the loop variable of `for turn in range(max_turns)`
    history,        \* run -> the conversation
    pending,        \* run -> msg.tool_calls of the turn being dispatched
    idx,            \* run -> position in pending of the tool being awaited
    tool_messages,  \* run -> tool results of the turn collected so far
    calls,          \* run -> number of model-inference calls made
    invoked,        \* run -> ids of the calls whose underlying tool was called
    wrapped,        \* run -> how each registry entry invocation ended
    outcome,        \* run -> None | content | fallback | raised
    retval,         \* run -> the string agent_loop returned
    user_goal,      \* run -> the user_goal argument
    replies,        \* run -> what the model answered to each inference call
    progress_cb,    \* the module-level _progress_cb: None or the job whose _report is bound
    jobs,           \* JobStore._jobs: job id -> JobRecord
    JOBS,           \* app/api/agent.py _JOBS: job id -> job dict
    task,           \* run -> the asyncio task of its runner: None | pending | finished | exception
    hooks,          \* run -> the bind_progress and on_finalize given to JobStore.start, and their calls
    sink,           \* what the callable given as progress sink does when it is called
    db_pool,        \* app/db/pool.py _pool: None or the pool
    held,           \* number of connections acquired from the pool and not released
    call,           \* the storage tool call in flight: arguments, locals, position
    log,            \* what the call in flight has asked of its collaborators, in order
    RefreshToken,   \* the committed rows of table refresh_tokens, by id
    req,            \* request slot -> the auth request being handled: arguments, locals, position
    now,            \* the clock, in whole seconds
    client          \* the web client's AuthClient and its call of _protected_request

\* the state of the storage tools
searchVars == <<db_pool, held, call, log>>

\* the state of the auth endpoints and of the web client
authVars == <<RefreshToken, req, now>>
clientVars == <<client>>

vars == <<pc, entry, max_turns, turn, history, pending, idx, tool_messages,
          calls, invoked, wrapped, outcome, retval, user_goal, replies,
          progress_cb, jobs, JOBS, task, hooks, sink, db_pool, held, call, log,
          RefreshToken, req, now, client>>

\* ---------------------------------------------------------------- messages
Message(role, content, tool_calls, tool_call_id, name) ==
    [role |-> role, content |-> content, tool_calls |-> tool_calls,
     tool_call_id |-> tool_call_id, name |-> name]

SystemMessage == Message("system", SYSTEM_PROMPT, <<>>, 0, None)
UserMessage(goal) == Message("user", goal, <<>>, 0, None)
AssistantMessage(tool_calls) == Message("assistant", "", tool_calls, 0, None)
ToolMessage(tc, content) == Message("tool", content, <<>>, tc.id, tc.name)

\* the id the model gives the i-th call of the assistant message of turn t
CallId(t, i, width) == t * width + i

\* the tool-call lists the model may answer with on turn t
ToolCallSeqs(t, names, args, width) ==
    UNION { [1..n -> [name : names, arguments : args]] : n \in 1..width }

WithIds(t, width, raw) ==
    [i \in 1..Len(raw) |->
        [id |-> CallId(t, i, width), name |-> raw[i].name,
         arguments |-> raw[i].arguments]]

\* ------------------------------------------------------- the run as a record
\* The state one run reads and writes: its own locals and the two process-wide
\* objects (the sink reference and the job store).
Local(r) ==
    [run |-> r, pc |-> pc[r], entry |-> entry[r], max_turns |-> max_turns[r],
     turn |-> turn[r], history |-> history[r], pending |-> pending[r],
     idx |-> idx[r], tool_messages |-> tool_messages[r], calls |-> calls[r],
     invoked |-> invoked[r], wrapped |-> wrapped[r], outcome |-> outcome[r],
     retval |-> retval[r], user_goal |-> user_goal[r], replies |-> replies[r],
     cb |-> progress_cb, jobs |-> jobs, JOBS |-> JOBS, task |-> task[r],
     hooks |-> hooks[r],
     sink |-> sink]

Commit(r, s) ==
    /\ pc' = [pc EXCEPT ![r] = s.pc]
    /\ entry' = [entry EXCEPT ![r] = s.entry]
    /\ max_turns' = [max_turns EXCEPT ![r] = s.max_turns]
    /\ turn' = [turn EXCEPT ![r] = s.turn]
    /\ history' = [history EXCEPT ![r] = s.history]
    /\ pending' = [pending EXCEPT ![r] = s.pending]
    /\ idx' = [idx EXCEPT ![r] = s.idx]
    /\ tool_messages' = [tool_messages EXCEPT ![r] = s.tool_messages]
    /\ calls' = [calls EXCEPT ![r] = s.calls]
    /\ invoked' = [invoked EXCEPT ![r] = s.invoked]
    /\ wrapped' = [wrapped EXCEPT ![r] = s.wrapped]
    /\ outcome' = [outcome EXCEPT ![r] = s.outcome]
    /\ retval' = [retval EXCEPT ![r] = s.retval]
    /\ user_goal' = [user_goal EXCEPT ![r] = s.user_goal]
    /\ replies' = [replies EXCEPT ![r] = s.replies]
    /\ progress_cb' = s.cb
    /\ jobs' = s.jobs
    /\ JOBS' = s.JOBS
    /\ task' = [task EXCEPT ![r] = s.task]
    /\ hooks' = [hooks EXCEPT ![r] = s.hooks]
    /\ sink' = s.sink
    /\ UNCHANGED <<searchVars, authVars, clientVars>>

\* ------------------------------------------------------------ progress sink
\* set_progress_callback: one module-level reference, overwritten by each call
set_progress_callback(s, cb) == [s EXCEPT !.cb = cb]

\* what a callable bound as the sink may do when it is called: record the
\* line; record it and have its own on_progress raise; raise
SinkBehaviours == {"records", "on_progress raises", "raises"}

\* JobStore.start._runner._report of job b: append to that job's log; an
\* exception of on_progress is swallowed after the line is recorded
report(js, b, m) ==
    IF b \notin DOMAIN js THEN js
    ELSE [js EXCEPT ![b].log = Append(@, m), ![b].message = m]

\* a progress line of run s.run about tool call tc
ProgressLine(s, tc, line) ==
    [from |-> s.run, id |-> tc.id, name |-> tc.name, line |-> line]

\* a sink held per invocation: the line goes to the emitting run's own job
emit_to_own_job(s, m) == [s EXCEPT !.jobs = report(s.jobs, s.run, m)]

\* `if _progress_cb: try: _progress_cb(msg) except Exception: pass`: a sink
\* that raises has recorded nothing and its exception goes no further
emit(s, m) ==
    IF s.cb = None THEN s
    ELSE IF s.sink = "raises" THEN s
    ELSE [s EXCEPT !.jobs = report(s.jobs, s.cb, m)]

\* ------------------------------------------------------------- job runner
JobRecord ==
    [status |-> "queued", started_at |-> None, finished_at |-> None,
     result |-> None, error |-> None, message |-> None, log |-> <<>>]

\* the hooks a caller of JobStore.start passes to scope the sink to the run
bind_progress(s) == set_progress_callback(s, s.run)
on_finalize(s) == set_progress_callback(s, None)

\* what a hook given to JobStore.start is: not given, a callable that
\* returns, a callable that raises
HookKinds == {None, "returns", "raises"}

\* the two hooks of a job, the number of times each was called, whether the
\* job coroutine had started when bind_progress was called and the status the
\* job had when on_finalize was called
Hooks(bind, fin) ==
    [bind_progress |-> bind, on_finalize |-> fin, bind_calls |-> 0,
     fin_calls |-> 0, bind_seen |-> None, fin_seen |-> None]
NoHooks == Hooks("returns", "returns")

\* `if bind_progress: try: bind_progress(_report) except Exception: pass`
call_bind_progress(s) ==
    IF s.hooks.bind_progress = None THEN s
    ELSE LET t == [s EXCEPT !.hooks.bind_calls = @ + 1,
                            !.hooks.bind_seen =
                                IF s.calls = 0 /\ s.history = <<>>
                                THEN "not started" ELSE "started"]
         IN  IF s.hooks.bind_progress = "raises" THEN t ELSE bind_progress(t)

\* `if on_finalize: try: on_finalize() except Exception: pass`
call_on_finalize(s) ==
    IF s.hooks.on_finalize = None THEN s
    ELSE LET t == [s EXCEPT !.hooks.fin_calls = @ + 1,
                            !.hooks.fin_seen = s.jobs[s.run].status]
         IN  IF s.hooks.on_finalize = "raises" THEN t ELSE on_finalize(t)

\* _runner, `finally:` finished_at is stamped and on_finalize is called; the
\* coroutine then returns and its task is finished
runner_finally(s) ==
    call_on_finalize([s EXCEPT !.jobs[s.run].finished_at = "set",
                               !.task = "finished"])

\* _runner, agent_loop returned res
runner_done(s, res) ==
    runner_finally([s EXCEPT !.jobs[s.run].result = res,
                             !.jobs[s.run].status = "done"])

\* an except branch that is not followed by the finally block
runner_error_without_finally(s, e) ==
    [s EXCEPT !.jobs[s.run].error = e, !.jobs[s.run].status = "error"]

\* an except branch that re-raises: the finally block runs and the exception
\* ends the runner's task
runner_error_reraises(s, e) ==
    [runner_finally(s) EXCEPT !.task = "exception"]

\* _runner, `except Exception as e`
runner_error(s, e) ==
    runner_finally([s EXCEPT !.jobs[s.run].error = e,
                             !.jobs[s.run].status = "error"])

\* app/api/agent.py: the dict api_agent_loop_start stores under the new id
ApiJob ==
    [status |-> "queued", result |-> None, error |-> None,
     started_at |-> None, finished_at |-> None]

\* api_agent_loop_start._runner, `finally:`
api_runner_finally(s) ==
    [s EXCEPT !.JOBS[s.run].finished_at = "set", !.task = "finished"]

\* api_agent_loop_start._runner, agent_loop returned res
api_runner_done(s, res) ==
    api_runner_finally([s EXCEPT !.JOBS[s.run].result = res,
                                 !.JOBS[s.run].status = "done"])

\* api_agent_loop_start._runner, `except Exception as e`
api_runner_error(s, e) ==
    api_runner_finally([s EXCEPT !.JOBS[s.run].error = e,
                                 !.JOBS[s.run].status = "error"])

\* GET /agent-loop/status/{job_id}: 404 for an unknown id, else the job's fields
api_agent_loop_status(J, job_id) ==
    IF job_id \notin DOMAIN J
    THEN [code |-> 404, status |-> None, result |-> None, error |-> None]
    ELSE [code |-> 200, status |-> J[job_id].status,
          result |-> J[job_id].result, error |-> J[job_id].error]

\* ---------------------------------------------------------------- agent_loop
\* agent_loop returns val to its caller
Return(s, val, kind) ==
    LET t == [s EXCEPT !.pc = "exited", !.outcome = kind, !.retval = val]
    IN  IF s.entry = "job" THEN runner_done(t, val)
        ELSE IF s.entry = "api_job" THEN api_runner_done(t, val)
        ELSE t

\* an exception leaves agent_loop
Raise(s, e) ==
    LET t == [s EXCEPT !.pc = "exited", !.outcome = "raised"]
    IN  IF s.entry = "job" THEN runner_error(t, e)
        ELSE IF s.entry = "api_job" THEN api_runner_error(t, e)
        ELSE t

\* for_turn with the range taken one too far
for_turn_one_more(s) ==
    IF s.turn <= s.max_turns
    THEN [s EXCEPT !.pc = "infer", !.calls = @ + 1]
    ELSE Return(s, FALLBACK, "fallback")

\* a loop that tests the ceiling only after its first turn
for_turn_do_while(s) ==
    IF s.turn < s.max_turns \/ s.turn = 0
    THEN [s EXCEPT !.pc = "infer", !.calls = @ + 1]
    ELSE Return(s, FALLBACK, "fallback")

\* `for turn in range(max_turns)` with s.turn the next index: either the next
\* inference call is made (and awaited) or the loop falls through to the
\* final `return`
for_turn(s) ==
    IF s.turn < s.max_turns
    THEN [s EXCEPT !.pc = "infer", !.calls = @ + 1]
    ELSE Return(s, FALLBACK, "fallback")

\* `continue`, or the end of the loop body
next_turn(s) == for_turn([s EXCEPT !.turn = @ + 1])

\* resolve without the `fname not in FUNCTIONS` test
resolve_without_lookup(tc) ==
    IF tc.arguments = "malformed" THEN "error: parse" ELSE "call"

\* resolve that goes on with fargs = {} after a parse error
resolve_after_parse_error(tc) ==
    IF tc.name \notin FUNCTIONS THEN "error: unknown function" ELSE "call"

\* what lines 279-295 decide for one tool call before any tool runs
resolve(tc) ==
    IF tc.arguments = "malformed" THEN "error: parse"
    ELSE IF tc.name \notin FUNCTIONS THEN "error: unknown function"
    ELSE "call"

\* logged_function wrapper up to `await fn(...)`: the start line, then the
\* underlying tool is called and the run is suspended on it
logged_function_enter(s, tc) ==
    [emit(s, ProgressLine(s, tc, "start"))
        EXCEPT !.pc = "tool", !.invoked = @ \cup {tc.id}]

RECURSIVE dispatch(_, _)

\* dispatch that goes on to the next call after a parse error or an unknown
\* name without recording a tool message
dispatch_drops_errors(s, i) ==
    IF i > Len(s.pending)
    THEN next_turn([s EXCEPT !.history = @ \o s.tool_messages,
                             !.tool_messages = <<>>, !.pending = <<>>,
                             !.idx = 0])
    ELSE LET tc == s.pending[i]
             r == resolve(tc)
         IN  IF r = "call"
             THEN logged_function_enter([s EXCEPT !.idx = i], tc)
             ELSE dispatch(s, i + 1)

\* the per-call loop body from call i on, up to the next awaited tool; after
\* the last call the tool messages are appended and the next turn starts
dispatch(s, i) ==
    IF i > Len(s.pending)
    THEN next_turn([s EXCEPT !.history = @ \o s.tool_messages,
                             !.tool_messages = <<>>, !.pending = <<>>,
                             !.idx = 0])
    ELSE LET tc == s.pending[i]
             r == resolve(tc)
         IN  IF r = "call"
             THEN logged_function_enter([s EXCEPT !.idx = i], tc)
             ELSE dispatch([s EXCEPT !.tool_messages =
                                Append(@, ToolMessage(tc, r))], i + 1)

\* a wrapper whose result line is not guarded: the exception of a raising
\* sink leaves the wrapper in place of the result
logged_function_return_unguarded(s, tc) ==
    IF s.cb # None /\ s.sink = "raises"
    THEN [s EXCEPT !.wrapped = @ \cup {<<tc.id, "raised">>}]
    ELSE [emit(s, ProgressLine(s, tc, "result"))
            EXCEPT !.wrapped = @ \cup {<<tc.id, "returned">>}]

\* a wrapper that hands the result back without a result line
logged_function_return_unreported(s, tc) ==
    [s EXCEPT !.wrapped = @ \cup {<<tc.id, "returned">>}]

\* logged_function wrapper after `await fn(...)` returned: the result line,
\* then the original result goes back to the loop
logged_function_return(s, tc) ==
    [emit(s, ProgressLine(s, tc, "result"))
        EXCEPT !.wrapped = @ \cup {<<tc.id, "returned">>}]

\* a wrapper that catches the tool's exception and returns an error result
logged_function_catches(s, tc) ==
    [s EXCEPT !.wrapped = @ \cup {<<tc.id, "returned">>}]

\* the underlying tool raised: nothing in the wrapper catches it
logged_function_raise(s, tc) ==
    [s EXCEPT !.wrapped = @ \cup {<<tc.id, "raised">>}]

\* lines 290-297 and 302-307 once the awaited underlying tool has returned:
\* what the registry entry hands back, or the error result if it raised, is
\* recorded for the call
tool_returned(s) ==
    LET tc == s.pending[s.idx]
        t == logged_function_return(s, tc)
        result == IF <<tc.id, "returned">> \in t.wrapped
                  THEN "result" ELSE "error: raised"
    IN  dispatch([t EXCEPT !.tool_messages =
                      Append(@, ToolMessage(tc, result))], s.idx + 1)

\* the dispatch site without its try/except: the exception leaves agent_loop
tool_raised_uncaught(s) ==
    Raise(logged_function_raise(s, s.pending[s.idx]), "tool error")

\* lines 296-297: `except Exception as e: result = {"error": str(e)}`
tool_raised(s) ==
    LET tc == s.pending[s.idx]
        t == logged_function_raise(s, tc)
    IN  dispatch([t EXCEPT !.tool_messages =
                      Append(@, ToolMessage(tc, "error: raised"))], s.idx + 1)

\* an inference call whose exception is swallowed and the turn skipped
inference_failure_swallowed(s) == next_turn(s)

\* lines 260-264: nothing around the inference call catches its exception
inference_failed(s) == Raise(s, "inference error")

\* handle_response that keeps only the latest exchange after the two seed
\* messages
handle_response_trims(s, content, tool_calls) ==
    IF content # ""
    THEN Return(s, content, "content")
    ELSE IF tool_calls # <<>>
    THEN dispatch([s EXCEPT !.history = Append(SubSeq(@, 1, 2),
                                               AssistantMessage(tool_calls)),
                            !.pending = tool_calls,
                            !.tool_messages = <<>>], 1)
    ELSE next_turn(s)

\* handle_response that takes a response without content and without tool
\* calls for the final answer
handle_response_ends_on_empty(s, content, tool_calls) ==
    IF tool_calls = <<>>
    THEN Return(s, content, "content")
    ELSE IF content # ""
    THEN Return(s, content, "content")
    ELSE dispatch([s EXCEPT !.history = Append(@, AssistantMessage(tool_calls)),
                            !.pending = tool_calls,
                            !.tool_messages = <<>>], 1)

\* handle_response that looks at the tool calls before the content
handle_response_tools_first(s, content, tool_calls) ==
    IF tool_calls # <<>>
    THEN dispatch([s EXCEPT !.history = Append(@, AssistantMessage(tool_calls)),
                            !.pending = tool_calls,
                            !.tool_messages = <<>>], 1)
    ELSE IF content # ""
    THEN Return(s, content, "content")
    ELSE next_turn(s)

\* lines 266-311: the response of the inference call is handled
handle_response(s, content, tool_calls) ==
    IF content # ""
    THEN Return(s, content, "content")
    ELSE IF tool_calls # <<>>
    THEN dispatch([s EXCEPT !.history = Append(@, AssistantMessage(tool_calls)),
                            !.pending = tool_calls,
                            !.tool_messages = <<>>], 1)
    ELSE next_turn(s)

\* lines 239-259: the conversation is seeded and the loop entered
agent_loop(s, goal, n) ==
    for_turn([s EXCEPT !.max_turns = n, !.turn = 0, !.user_goal = goal,
                       !.history = <<SystemMessage, UserMessage(goal)>>])

\* ------------------------------------------------------------- arithmetic
Abs(x) == IF x < 0 THEN -x ELSE x

RECURSIVE GCD(_, _)
GCD(a, b) == IF b = 0 THEN a ELSE GCD(b, a % b)

\* the fraction n/d, d > 0, in lowest terms
Rat(n, d) == LET g == GCD(Abs(n), d) IN <<n \div g, d \div g>>

Zero == Rat(0, 1)
One == Rat(1, 1)

RatAdd(a, b) == Rat(a[1] * b[2] + b[1] * a[2], a[2] * b[2])
RatSub(a, b) == Rat(a[1] * b[2] - b[1] * a[2], a[2] * b[2])
RatMul(a, b) == Rat(a[1] * b[1], a[2] * b[2])
\* a / b for b > 0
RatDiv(a, b) == Rat(a[1] * b[2], a[2] * b[1])
RatLess(a, b) == a[1] * b[2] < b[1] * a[2]
RatLeq(a, b) == a[1] * b[2] <= b[1] * a[2]

RatMax(S) == CHOOSE m \in S : \A x \in S : RatLeq(x, m)

Min(a, b) == IF a < b THEN a ELSE b
Max(a, b) == IF a > b THEN a ELSE b

\* `1.0 + math.exp(x)` in double precision at the arguments the scores tried
\* lead to, to three decimals.  math.exp(-40) = 4.2e-18 and math.exp(-45) =
\* 2.9e-20 are less than half an ulp of 1.0 (1.1e-16): the sum is exactly 1.0.
one_plus_exp(x) ==
    CASE x = Rat(0, 1) -> Rat(2, 1)
      [] x = Rat(-1, 1) -> Rat(1368, 1000)
      [] x = Rat(-4, 1) -> Rat(1018, 1000)
      [] x = Rat(-40, 1) -> Rat(1, 1)
      [] x = Rat(-45, 1) -> Rat(1, 1)

\* ------------------------------------------------------------ score fusion
\* the complement d / (1 + d), which grows with the distance
similarity_complement(distance) == RatDiv(distance, RatAdd(One, distance))

\* `1.0 / (1.0 + distance)`
similarity(distance) == RatDiv(One, RatAdd(One, distance))

\* `float(r["ft_score"] or 0.0)`
float_or_zero(v) == IF v = NULL THEN Zero ELSE v

\* `{r["id"]: float(r["ft_score"] or 0.0) for r in ft_rows}`
ft_scores_of(ft_rows) ==
    [id \in DOMAIN ft_rows |-> float_or_zero(ft_rows[id])]

\* dict.get
get(d, k, default) == IF k \in DOMAIN d THEN d[k] ELSE default

\* search.py 105-108: the largest raw score, 1.0 when that is not positive
max_ft_of(ft_scores) ==
    LET m == IF DOMAIN ft_scores = {} THEN Zero
             ELSE RatMax({ft_scores[id] : id \in DOMAIN ft_scores})
    IN  IF RatLeq(m, Zero) THEN One ELSE m

\* a normalization that saturates instead of dividing by the maximum
ft_norm_saturating(ft_raw, max_ft) ==
    RatDiv(One, one_plus_exp(RatMul(Rat(-5, 1), ft_raw)))

\* search.py 118: `ft_raw / max_ft`
ft_norm_of(ft_raw, max_ft) == RatDiv(ft_raw, max_ft)

\* search_combined.py 86: `1.0 / (1.0 + math.exp(-5 * ft_score))`
sigmoid(ft_score) ==
    RatDiv(One, one_plus_exp(RatMul(Rat(-5, 1), ft_score)))

\* the normalized full-text value either implementation gives a candidate
normalized(variant, ft_raw, max_ft) ==
    IF variant = "search" THEN ft_norm_of(ft_raw, max_ft) ELSE sigmoid(ft_raw)

\* a fusion that adds the two signals without weighting the second
final_score_unweighted(alpha, emb_sim, ft_norm) ==
    RatAdd(RatMul(alpha, emb_sim), ft_norm)

\* `alpha * emb_sim + (1.0 - alpha) * ft_norm`
final_score(alpha, emb_sim, ft_norm) ==
    RatAdd(RatMul(alpha, emb_sim), RatMul(RatSub(One, alpha), ft_norm))

ArticleMeta(id, score) == [id |-> id, score |-> score]

\* a loop over the candidates that stage 2 has a row for, the others dropped
score_rows_joined(variant, candidates, ft_rows, alpha) ==
    LET ft_scores == ft_scores_of(ft_rows)
        max_ft == max_ft_of(ft_scores)
        joined == SelectSeq(candidates, LAMBDA c : c.id \in DOMAIN ft_rows)
    IN  [i \in 1..Len(joined) |->
            ArticleMeta(joined[i].id,
                        final_score(alpha, similarity(joined[i].distance),
                                    normalized(variant, ft_scores[joined[i].id],
                                               max_ft)))]

\* the per-candidate loop: one ArticleMeta per stage-1 row, in stage-1 order
score_rows(variant, candidates, ft_rows, alpha) ==
    LET ft_scores == ft_scores_of(ft_rows)
        max_ft == max_ft_of(ft_scores)
    IN  [i \in 1..Len(candidates) |->
            ArticleMeta(candidates[i].id,
                        final_score(alpha, similarity(candidates[i].distance),
                                    normalized(variant,
                                               get(ft_scores, candidates[i].id, Zero),
                                               max_ft)))]

\* x put into a list sorted by score, largest first, behind its equals
insert(sorted, x) ==
    LET before == SelectSeq(sorted, LAMBDA y : RatLeq(x.score, y.score))
        after == SelectSeq(sorted, LAMBDA y : RatLess(y.score, x.score))
    IN  before \o <<x>> \o after

\* a sort that leaves the rows in stage-1 order
sort_skipped(rows) == rows

\* `rows.sort(key=lambda x: x.score, reverse=True)`: stable, largest first
RECURSIVE sort_reverse(_)
sort_reverse(rows) ==
    IF rows = <<>> THEN <<>>
    ELSE insert(sort_reverse(SubSeq(rows, 1, Len(rows) - 1)), rows[Len(rows)])

\* `results[:limit]`, a Python slice
slice_to(results, limit) ==
    IF limit >= 0 THEN SubSeq(results, 1, Min(limit, Len(results)))
    ELSE SubSeq(results, 1, Max(0, Len(results) + limit))

\* the clamp without its lower end
clamp_preselect_no_floor(preselect) == Min(preselect, 2000)

\* `max(10, min(int(preselect), 2000))`
clamp_preselect(preselect) == Max(10, Min(preselect, 2000))

\* what combined_search returns once both stages have answered
ranked(variant, candidates, ft_rows, alpha, limit) ==
    LET rows == sort_reverse(score_rows(variant, candidates, ft_rows, alpha))
    IN  IF variant = "search" THEN slice_to(rows, limit) ELSE rows

\* ------------------------------------------------------ storage tool calls
\* One call of a storage tool is a coroutine too: it is suspended at the
\* embedding provider, at create_pool, at acquire and at each query.
NoCall ==
    [op |-> None, variant |-> None, pc |-> "idle", limit |-> 0,
     preselect_arg |-> 0, preselect |-> 0, stage1_limit |-> 0,
     alpha |-> Zero, method |-> None,
     conn |-> FALSE, emb |-> "unset", candidates |-> <<>>, ids |-> <<>>,
     ft_rows |-> <<>>,
     answered |-> {}, failed |-> None, outcome |-> None, result |-> <<>>,
     error |-> None]

\* the state a call reads and writes: its locals, the pool, the ghost log
LocalCall == [c |-> call, db_pool |-> db_pool, held |-> held, log |-> log]

CommitCall(s) ==
    /\ call' = s.c
    /\ db_pool' = s.db_pool
    /\ held' = s.held
    /\ log' = s.log
    /\ UNCHANGED <<pc, entry, max_turns, turn, history, pending, idx,
                   tool_messages, calls, invoked, wrapped, outcome, retval,
                   user_goal, replies, progress_cb, jobs, JOBS, task, hooks,
                   sink>>
    /\ UNCHANGED <<authVars, clientVars>>

\* the call asks something of a collaborator
asks(s, what) == [s EXCEPT !.log = Append(@, what)]

\* the query the call is suspended on has returned its rows
answered(s) == [s EXCEPT !.c.answered = @ \cup {s.c.pc}]

\* the collaborator the call is suspended on has failed
fails(s) == [s EXCEPT !.c.failed = s.c.pc]

\* the call returns val
returns(s, val) ==
    [s EXCEPT !.c.pc = "done", !.c.outcome = "returned", !.c.result = val]

\* an exception leaves the call
raises(s, e) ==
    [s EXCEPT !.c.pc = "done", !.c.outcome = "raised", !.c.error = e]

\* leaving the `async with` block without giving the connection back
aexit_keeps_connection(s) == [s EXCEPT !.c.conn = FALSE]

\* `async with p.acquire() as conn:` is left, by return or by exception
aexit(s) ==
    asks([s EXCEPT !.held = @ - 1, !.c.conn = FALSE], "release")

\* `p = pool()` then `async with p.acquire() as conn:` up to the await
pool_acquire(s) ==
    IF s.db_pool = None THEN raises(s, "Database pool is not initialized")
    ELSE asks([s EXCEPT !.c.pc = "acquire"], "acquire")

\* `await connect_db()` then pool_acquire
connect_db(s) ==
    IF s.db_pool = None THEN asks([s EXCEPT !.c.pc = "connect"], "create_pool")
    ELSE pool_acquire(s)

\* combined_search is entered: the embedding of the query is asked for
combined_search(s, variant, args) ==
    asks([s EXCEPT !.c = [NoCall EXCEPT !.op = "combined_search",
                                        !.variant = variant,
                                        !.pc = "embedding",
                                        !.limit = args.limit,
                                        !.preselect_arg = args.preselect,
                                        !.preselect = args.preselect,
                                        !.alpha = args.alpha],
                   !.log = <<>>],
         "get_query_embedding")

\* an embedding step that goes on to the storage with an empty embedding
embedding_unchecked(s, emb) ==
    pool_acquire([s EXCEPT !.c.emb = emb, !.c.preselect = clamp_preselect(@)])

\* search.py 51-68: empty embedding, clamp, pool, acquire
embedding_returned(s, emb) ==
    IF emb \in {"empty", None} THEN returns([s EXCEPT !.c.emb = emb], <<>>)
    ELSE pool_acquire([s EXCEPT !.c.emb = emb,
                                !.c.preselect = clamp_preselect(@)])

\* an embedding failure turned into an empty result
embedding_raised_swallowed(s) == returns(s, <<>>)

\* get_query_embedding raised: nothing in combined_search catches it
embedding_raised(s) == raises(s, "embedding error")

\* fetch_articles is entered
fetch_articles(s) ==
    connect_db([s EXCEPT !.c = [NoCall EXCEPT !.op = "fetch_articles"],
                         !.log = <<>>])

\* get_related_articles_agent is entered
get_related_articles_agent(s, method) ==
    connect_db([s EXCEPT !.c = [NoCall EXCEPT
                                   !.op = "get_related_articles_agent",
                                   !.method = method],
                         !.log = <<>>])

\* create_pool returned: the pool is stored, then pool_acquire
create_pool_returned(s) == pool_acquire([s EXCEPT !.db_pool = "pool"])

\* acquire returned a connection: the first query of the call is sent
acquired(s) ==
    LET t == [s EXCEPT !.held = @ + 1, !.c.conn = TRUE]
    IN  CASE s.c.op = "combined_search" ->
                 asks([t EXCEPT !.c.pc = "stage1",
                                !.c.stage1_limit = s.c.preselect], "stage1")
          [] s.c.op = "fetch_articles" ->
                 asks([t EXCEPT !.c.pc = "fetch"], "fetch")
          [] s.c.op = "get_related_articles_agent" /\ s.c.method = "semantic" ->
                 asks([t EXCEPT !.c.pc = "fetchrow"], "fetchrow")
          [] OTHER ->
                 asks([t EXCEPT !.c.pc = "fetch"], "fetch")

\* `ids = [r["id"] for r in candidates]`, the $2 of the stage-2 query
ids_of(candidates) == [i \in 1..Len(candidates) |-> candidates[i].id]

\* a stage-1 step that sends the stage-2 query whatever stage 1 returned
stage1_returned_no_short_circuit(s, candidates) ==
    asks([answered(s) EXCEPT !.c.pc = "stage2", !.c.candidates = candidates,
                             !.c.ids = ids_of(candidates)],
         "stage2")

\* search.py 83-101: `if not candidates: return []`, else the stage-2 query
stage1_returned(s, candidates) ==
    IF candidates = <<>> THEN returns(aexit(answered(s)), <<>>)
    ELSE asks([answered(s) EXCEPT !.c.pc = "stage2",
                                  !.c.candidates = candidates,
                                  !.c.ids = ids_of(candidates)], "stage2")

\* search.py 102-138: scores, sort, truncation, return
stage2_returned(s, ft_rows) ==
    returns(aexit([answered(s) EXCEPT !.c.ft_rows = ft_rows]),
            ranked(s.c.variant, s.c.candidates, ft_rows, s.c.alpha, s.c.limit))

\* relations.py 71-88: `if not emb_row: return []`, else the second query
fetchrow_returned(s, found) ==
    IF ~found THEN returns(aexit(answered(s)), <<>>)
    ELSE asks([answered(s) EXCEPT !.c.pc = "fetch"], "fetch")

\* the only query of fetch_articles or the last of get_related_articles_agent
fetch_returned(s) == returns(aexit(answered(s)), <<>>)

\* a query raised inside the `async with` block: released, then propagated
query_raised(s) == raises(aexit(s), "query error")

\* the stage-1 rows the storage may answer with: ids 0, 1, ... in the order
\* of the rows, distances never decreasing (ORDER BY distance)
CandidateSeqs(n) ==
    UNION {{[i \in 1..k |-> [id |-> i - 1, distance |-> f[i]]] :
              f \in {g \in [1..k -> DistancesTried] :
                       \A i \in 1..(k - 1) : RatLeq(g[i], g[i + 1])}} :
           k \in 0..n}

\* the stage-2 rows, `WHERE a.id = ANY($2)`: a row for each id asked for, or
\* rows for some of them
FtRowSets(asked) ==
    LET ids == {asked[i] : i \in 1..Len(asked)}
    IN  [ids -> FtScoresTried] \cup [ids -> FtScoresHigh]
          \cup UNION {[D -> {Rat(4, 5)}] : D \in SUBSET ids}

\* the arguments combined_search is called with
SearchArgs ==
    {a \in [limit : LimitsTried, preselect : PreselectsTried, alpha : AlphasTried] :
        \/ a.limit = 5 /\ a.preselect = 50
        \/ a.limit = 5 /\ a.alpha = Rat(7, 10)
        \/ a.preselect = 50 /\ a.alpha = Rat(7, 10)}

\* ------------------------------------------------------------ auth: tokens
\* the variables of the agent loop, its sink and its job stores
agentVars == <<pc, entry, max_turns, turn, history, pending, idx,
               tool_messages, calls, invoked, wrapped, outcome, retval,
               user_goal, replies, progress_cb, jobs, JOBS, task, hooks, sink>>

Users == {"alice", "bob"}
\* the slots of the requests handled at the same time
Reqs == {"q1", "q2"}
\* REFRESH_TOKEN_EXPIRE_DAYS, in seconds of the model's clock
REFRESH_TOKEN_EXPIRE == 1

\* A signed token is the record of its claims; a string that is not a token of
\* this server has type "malformed".
Token(type, sub, jti, exp) == [type |-> type, sub |-> sub, jti |-> jti, exp |-> exp]
NoToken == Token(None, None, 0, 0)
Malformed == Token("malformed", None, 0, 0)

\* create_access_token: the model's access tokens outlive its clock
create_access_token(subject) == Token("access", subject, 0, MaxNow + 1)

\* create_refresh_token(subject, jti) at time t
create_refresh_token(subject, jti, t) ==
    Token("refresh", subject, jti, t + REFRESH_TOKEN_EXPIRE)

\* decode_token: jose rejects a bad signature and a token whose exp is before
\* the current second; JWTError is ok = FALSE
decode_token(token, t) ==
    IF token.type = "malformed" \/ token.exp < t
    THEN [ok |-> FALSE, claims |-> NoToken]
    ELSE [ok |-> TRUE, claims |-> token]

\* a row of refresh_tokens; rotated_from and burned are not columns:
\* rotated_from records the id of the row whose token the refresh that stored
\* this row accepted (0: login), burned that the row was revoked by the
\* revocation of all sessions that follows a detected reuse
Row(user_id, token, expires_at, revoked, rotated_from) ==
    [user_id |-> user_id, token |-> token, expires_at |-> expires_at,
     revoked |-> revoked, rotated_from |-> rotated_from, burned |-> FALSE]

\* select(RefreshToken).where(id == token_id, token == presented): the id of
\* the row, 0 for none
scalar_one_or_none(t, token_id, presented) ==
    IF token_id \in DOMAIN t /\ t[token_id].token = presented THEN token_id ELSE 0

\* ---------------------------------------------------------- auth: requests
NoReq ==
    [op |-> None, pc |-> "idle", token |-> NoToken, caller |-> None,
     user |-> None, token_id |-> 0, where |-> None, targets |-> {},
     new |-> 0, new_token |-> NoToken, after |-> 0, code |-> 0,
     detail |-> None, body |-> NoToken]

\* the state one request reads and writes: its locals, the committed table,
\* the clock
LocalReq(q) ==
    [q |-> req[q], t |-> RefreshToken, now |-> now]

CommitReq(q, s) ==
    /\ req' = [req EXCEPT ![q] = s.q]
    /\ RefreshToken' = s.t
    /\ UNCHANGED <<now, clientVars, agentVars, searchVars>>

\* the handler answers, with HTTPException(code, detail) or with the returned
\* body; of the request only what the client sent is still there
respond(s, code, detail, body) ==
    [s EXCEPT !.q = [NoReq EXCEPT !.op = s.q.op, !.token = s.q.token,
                                  !.pc = "done", !.code = code,
                                  !.detail = detail, !.body = body]]

\* login, lines 118-122, for a user whose password was verified: the access
\* token is made, the new row added and the first flush awaited
login(s, user) ==
    [s EXCEPT !.q.op = "login", !.q.user = user, !.q.pc = "flush_insert",
              !.q.after = 200]

\* refresh_tokens, lines 138-169: the claims are checked and the row selected
refresh_tokens(s, token) ==
    LET d == decode_token(token, s.now)
        u == [s EXCEPT !.q.op = "refresh", !.q.token = token]
    IN  IF ~d.ok
        THEN respond(u, 401, "Invalid or expired refresh token", NoToken)
        ELSE IF d.claims.type # "refresh"
        THEN respond(u, 401, "Invalid token type", NoToken)
        ELSE IF d.claims.sub = None \/ d.claims.jti = 0
        THEN respond(u, 401, "Invalid token claims", NoToken)
        ELSE [u EXCEPT !.q.pc = "select", !.q.user = d.claims.sub,
                       !.q.token_id = d.claims.jti]

\* a refresh that rotates an expired row
select_returned_ignores_expiry(s) ==
    LET token_row == scalar_one_or_none(s.t, s.q.token_id, s.q.token)
    IN  IF token_row = 0 \/ s.t[token_row].revoked
        THEN [s EXCEPT !.q.pc = "revoke", !.q.where = "user",
                       !.q.after = 401]
        ELSE [s EXCEPT !.q.pc = "flush_revoke", !.q.after = 200]

\* refresh_tokens, lines 170-203: the selected row is examined; a missing or
\* revoked row starts the revocation of all the user's rows, a good one is
\* marked revoked and flushed
select_returned(s) ==
    LET token_row == scalar_one_or_none(s.t, s.q.token_id, s.q.token)
    IN  IF token_row = 0 \/ s.t[token_row].revoked
        THEN [s EXCEPT !.q.pc = "revoke", !.q.where = "user",
                       !.q.after = 401]
        ELSE IF s.t[token_row].expires_at <= s.now
        THEN respond(s, 401, "Refresh token expired", NoToken)
        ELSE IF s.t[token_row].user_id # s.q.user
        THEN respond(s, 401, "Token/user mismatch", NoToken)
        ELSE [s EXCEPT !.q.pc = "flush_revoke", !.q.after = 200]

\* refresh_tokens, lines 203-208: the UPDATE of the presented row has run and
\* holds the row; the access token is made, the new row added, the second
\* flush awaited
flush_revoke_returned(s) ==
    [s EXCEPT !.q.targets = {s.q.token_id}, !.q.pc = "flush_insert"]

\* lines 208-213 (and 122-127 of login): the INSERT has run and given the new
\* row its id; the refresh token is made with that id as jti and stored in
\* the row; the commit is awaited
flush_insert_returned(s) ==
    LET id == Len(s.t) + 1
    IN  [s EXCEPT !.q.new = id,
                  !.q.new_token = create_refresh_token(s.q.user, id, s.now),
                  !.q.pc = "commit"]

\* the rows an UPDATE ... SET revoked = true of the request matches
matched(s) ==
    IF s.q.where = "user"
    THEN {id \in DOMAIN s.t : s.t[id].user_id = s.q.user /\ ~s.t[id].revoked}
    ELSE {id \in DOMAIN s.t : id = s.q.token_id /\ s.t[id].user_id = s.q.user}

\* the UPDATE of a revocation has run and holds its rows; the commit is awaited
revoke_returned(s) ==
    [s EXCEPT !.q.targets = matched(s), !.q.pc = "commit"]

\* what the transaction of the request makes of the table when it commits
committed(s) ==
    LET marked == [id \in DOMAIN s.t |->
                       IF id \in s.q.targets
                       THEN [s.t[id] EXCEPT
                                !.revoked = TRUE,
                                !.burned = @ \/ (s.q.op = "refresh"
                                                    /\ s.q.after = 401)]
                       ELSE s.t[id]]
    IN  IF s.q.new = 0 THEN marked
        ELSE Append(marked, Row(s.q.user, s.q.new_token,
                                 s.q.new_token.exp, FALSE, s.q.token_id))

\* `await session.commit()` returned: the writes of the request are in the
\* table; refresh and login return the token pair, a reuse raises 401, logout
\* returns
commit_returned(s) ==
    LET t == [s EXCEPT !.t = committed(s)]
    IN  IF s.q.after = 401
        THEN respond(t, 401, "Refresh token reuse detected; all sessions revoked",
                     NoToken)
        ELSE respond(t, 200, None, s.q.new_token)

\* a logout that revokes the presented token whoever it belongs to
logout_unchecked(s, caller, token, all_sessions) ==
    LET d == decode_token(token, s.now)
    IN  IF all_sessions \/ token = NoToken
        THEN [s EXCEPT !.q.op = "logout", !.q.caller = caller,
                       !.q.user = caller, !.q.where = "user",
                       !.q.pc = "revoke", !.q.after = 200]
        ELSE IF ~d.ok
        THEN respond([s EXCEPT !.q.op = "logout", !.q.caller = caller,
                               !.q.token = token], 400,
                     "Malformed or expired refresh token", NoToken)
        ELSE [s EXCEPT !.q.op = "logout", !.q.caller = caller,
                       !.q.token = token, !.q.user = d.claims.sub,
                       !.q.token_id = d.claims.jti, !.q.where = "id",
                       !.q.pc = "revoke", !.q.after = 200]

\* logout, lines 239-291, for the caller get_current_user has authenticated;
\* token = NoToken is a request without a body
logout(s, caller, token, all_sessions) ==
    LET d == decode_token(token, s.now)
        u == [s EXCEPT !.q.op = "logout", !.q.caller = caller,
                       !.q.token = token]
    IN  IF all_sessions \/ token = NoToken
        THEN [u EXCEPT !.q.user = caller, !.q.where = "user",
                       !.q.pc = "revoke", !.q.after = 200]
        ELSE IF ~d.ok
        THEN respond(u, 400, "Malformed or expired refresh token", NoToken)
        ELSE IF d.claims.type # "refresh"
        THEN respond(u, 400, "Invalid token type for logout", NoToken)
        ELSE IF d.claims.sub = None \/ d.claims.jti = 0
        THEN respond(u, 400, "Invalid refresh token claims", NoToken)
        ELSE IF d.claims.sub # caller
        THEN respond(u, 403, "Cannot revoke token of another user", NoToken)
        ELSE [u EXCEPT !.q.user = caller, !.q.token_id = d.claims.jti,
                       !.q.where = "id", !.q.pc = "revoke", !.q.after = 200]

\* the rows a request has updated and not committed: other writers wait
LockedRows(q) ==
    IF req[q].pc \in {"flush_insert", "commit"} THEN req[q].targets ELSE {}

\* the request has inserted its row with token "" and not committed: the
\* unique index on token makes the next such INSERT wait
InsertPending(q) == req[q].pc = "commit" /\ req[q].new # 0

\* the tokens a client may present: those of the stored rows, an access
\* token, one naming a row that does not exist, one of an earlier day that
\* expires after second 0, and a string that is no token
TokensTried ==
    {RefreshToken[id].token : id \in DOMAIN RefreshToken}
        \cup {create_access_token("alice"), Malformed,
              Token("refresh", "alice", MaxRows + 1, MaxNow + 1),
              Token("refresh", "alice", MaxRows + 1, 0)}

\* ---------------------------------------------------------- the web client
\* the access and refresh tokens the server hands out, and the status codes
\* it answers with
AccessTokens == {"a1", "a2"}
RefreshTokens == {"r1", "r2"}
StatusCodes == {200, 401, 403, 500}

\* AuthClient: _access_token and the stored refresh token, and the call of
\* _protected_request in progress: where it waits, the headers of each request
\* it has sent, the calls of refresh() it has made and what the last one
\* returned and was granted, the status of each response, the response
\* returned
NoClient ==
    [pc |-> "idle", access_token |-> None, refresh_token |-> None,
     sends |-> 0, refreshes |-> 0, refreshed |-> FALSE, granted |-> None,
     sent_with |-> <<>>, first |-> 0, second |-> 0, result |-> 0]

\* AuthClient._auth_headers
auth_headers(c) ==
    IF c.access_token = None THEN {}
    ELSE {<<"Authorization", c.access_token>>}

\* AuthClient.set_tokens: a refresh token of None leaves the stored one
set_tokens(c, access_token, refresh_token) ==
    [c EXCEPT !.access_token = access_token,
              !.refresh_token = IF refresh_token = None THEN @
                                ELSE refresh_token]

\* AuthClient.clear_tokens
clear_tokens(c) ==
    [c EXCEPT !.access_token = None, !.refresh_token = None]

\* self._client.request(method, path, headers=headers, ...) is sent
request(c) ==
    [c EXCEPT !.sends = @ + 1, !.sent_with = Append(@, auth_headers(c))]

\* _protected_request, lines 144-145: headers are built and the request sent
protected_request(c) ==
    request([c EXCEPT !.pc = "request", !.sends = 0, !.refreshes = 0,
                      !.refreshed = FALSE, !.granted = None,
                      !.sent_with = <<>>, !.first = 0, !.second = 0,
                      !.result = 0])

\* a client that asks for new tokens and sends again after every 401
response_arrived_retries(c, status_code) ==
    LET d == IF c.sends = 1 THEN [c EXCEPT !.first = status_code]
             ELSE [c EXCEPT !.second = status_code]
    IN  IF status_code = 401 /\ d.refresh_token # None
        THEN [d EXCEPT !.refreshes = @ + 1, !.pc = "refresh"]
        ELSE [d EXCEPT !.pc = "returned", !.result = status_code]

\* the response of the request arrives. Lines 146 and 101-104: the first
\* response, if 401, makes the client call refresh(), which returns False
\* without a request when no refresh token is stored and else posts it;
\* line 149: any other first response, and the second response whatever its
\* status, is returned
response_arrived(c, status_code) ==
    IF c.sends = 1
    THEN LET d == [c EXCEPT !.first = status_code]
         IN  IF status_code # 401
             THEN [d EXCEPT !.pc = "returned", !.result = status_code]
             ELSE IF d.refresh_token = None
             THEN [d EXCEPT !.refreshes = @ + 1, !.refreshed = FALSE,
                            !.pc = "returned", !.result = status_code]
             ELSE [d EXCEPT !.refreshes = @ + 1, !.pc = "refresh"]
    ELSE [c EXCEPT !.second = status_code, !.pc = "returned",
                   !.result = status_code]

\* the response of POST /refresh arrives. Lines 105-110: a status of 400 or
\* more makes refresh() return False and the first response is returned;
\* else the tokens are stored; lines 147-148: the request is sent again with
\* the new headers
refresh_arrived(c, status_code, access_token, refresh_token) ==
    IF status_code >= 400
    THEN [c EXCEPT !.refreshed = FALSE, !.pc = "returned",
                   !.result = c.first]
    ELSE request([set_tokens(c, access_token, refresh_token)
                     EXCEPT !.refreshed = TRUE, !.granted = access_token,
                            !.pc = "request"])

\* ------------------------------------------------------------------ actions
Init ==
    /\ pc = [r \in Runs |-> "idle"]
    /\ entry = [r \in Runs |-> None]
    /\ max_turns = [r \in Runs |-> 0]
    /\ turn = [r \in Runs |-> 0]
    /\ history = [r \in Runs |-> <<>>]
    /\ pending = [r \in Runs |-> <<>>]
    /\ idx = [r \in Runs |-> 0]
    /\ tool_messages = [r \in Runs |-> <<>>]
    /\ calls = [r \in Runs |-> 0]
    /\ invoked = [r \in Runs |-> {}]
    /\ wrapped = [r \in Runs |-> {}]
    /\ outcome = [r \in Runs |-> None]
    /\ retval = [r \in Runs |-> None]
    /\ user_goal = [r \in Runs |-> None]
    /\ replies = [r \in Runs |-> <<>>]
    /\ progress_cb = None
    /\ jobs = << >>
    /\ JOBS = << >>
    /\ task = [r \in Runs |-> None]
    /\ sink = "records"
    /\ db_pool = None
    /\ held = 0
    /\ call = NoCall
    /\ log = <<>>
    /\ RefreshToken = <<>>
    /\ req = [q \in Reqs |-> NoReq]
    /\ now = 0
    /\ client = NoClient
    /\ hooks = [r \in Runs |-> NoHooks]

\* POST /agent-loop: agent_loop is awaited by the request handler itself
api_agent_loop(r, goal, n) ==
    /\ pc[r] = "idle"
    /\ Commit(r, agent_loop([Local(r) EXCEPT !.entry = "direct"], goal, n))

\* JobStore.start: the record is stored and the runner task created
JobStore_start(r, goal, n) ==
    /\ pc[r] = "idle"
    /\ Commit(r, [Local(r) EXCEPT !.pc = "queued", !.entry = "job",
                                  !.user_goal = goal, !.max_turns = n,
                                  !.task = "pending",
                                  !.jobs = (r :> JobRecord) @@ jobs])

\* a runner whose call of bind_progress is not guarded: its exception is
\* taken by the `except` around the job
runner_bind_unguarded(s) ==
    LET t == [s EXCEPT !.jobs[s.run].status = "running",
                       !.jobs[s.run].started_at = "set"]
    IN  IF t.hooks.bind_progress = "raises"
        THEN runner_error([t EXCEPT !.hooks.bind_calls = @ + 1,
                                    !.hooks.bind_seen = "not started",
                                    !.pc = "exited", !.outcome = "raised"],
                          "bind_progress error")
        ELSE agent_loop(call_bind_progress(t), s.user_goal, s.max_turns)

\* JobStore.start._runner up to its first suspension: the job is marked
\* running, bind_progress is called and the coroutine (agent_loop) is entered
runner(s) ==
    agent_loop(call_bind_progress([s EXCEPT !.jobs[s.run].status = "running",
                                            !.jobs[s.run].started_at = "set"]),
               s.user_goal, s.max_turns)

runner_starts(r) ==
    /\ pc[r] = "queued"
    /\ entry[r] = "job"
    /\ Commit(r, runner(Local(r)))

\* JobStore.start with the hooks of the caller's choice
JobStore_start_with(r, goal, n, bind, fin) ==
    /\ pc[r] = "idle"
    /\ Commit(r, [Local(r) EXCEPT !.pc = "queued", !.entry = "job",
                                  !.user_goal = goal, !.max_turns = n,
                                  !.task = "pending",
                                  !.hooks = Hooks(bind, fin),
                                  !.jobs = (r :> JobRecord) @@ jobs])

\* a start that takes the id of a job that has finished
api_agent_loop_start_reuses_id(r, goal, n) ==
    /\ pc[r] \in {"idle", "exited"}
    /\ Commit(r, [Local(r) EXCEPT !.pc = "queued", !.entry = "api_job",
                                  !.user_goal = goal, !.max_turns = n,
                                  !.task = "pending",
                                  !.JOBS = (r :> ApiJob) @@ JOBS])

\* POST /agent-loop/start: the dict is stored under a fresh id and the runner
\* task created
api_agent_loop_start(r, goal, n) ==
    /\ pc[r] = "idle"
    /\ Commit(r, [Local(r) EXCEPT !.pc = "queued", !.entry = "api_job",
                                  !.user_goal = goal, !.max_turns = n,
                                  !.task = "pending",
                                  !.JOBS = (r :> ApiJob) @@ JOBS])

\* api_agent_loop_start._runner up to its first suspension: the job is marked
\* running and agent_loop is entered; no sink is bound on this path
api_runner(s) ==
    IF s.run \notin DOMAIN s.JOBS
    THEN [s EXCEPT !.pc = "exited", !.task = "finished"]
    ELSE agent_loop([s EXCEPT !.JOBS[s.run].status = "running",
                              !.JOBS[s.run].started_at = "set"],
                    s.user_goal, s.max_turns)

\* the runner task of a job of _JOBS is scheduled for the first time
api_runner_starts(r) ==
    /\ pc[r] = "queued"
    /\ entry[r] = "api_job"
    /\ Commit(r, api_runner(Local(r)))

\* the callable bound as the sink changes what it does when it is called
sink_changes(b) ==
    /\ progress_cb # None
    /\ sink # b
    /\ sink' = b
    /\ UNCHANGED <<pc, entry, max_turns, turn, history, pending, idx,
                   tool_messages, calls, invoked, wrapped, outcome, retval,
                   user_goal, replies, progress_cb, jobs, JOBS, task, hooks>>
    /\ UNCHANGED <<searchVars, authVars, clientVars>>

\* what the model did on one inference call, as the provider saw it
Reply(content, tool_calls, failed) ==
    [content |-> content, tool_calls |-> tool_calls, failed |-> failed]

\* the awaited inference call returns a message
inference_returns(r, content, raw, width, longest) ==
    /\ pc[r] = "infer"
    /\ raw # <<>> => Len(history[r]) + 1 + Len(raw) <= longest
    /\ LET tool_calls == WithIds(turn[r], width, raw)
           s == [Local(r) EXCEPT !.replies =
                     Append(@, Reply(content, tool_calls, FALSE))]
       IN  Commit(r, handle_response(s, content, tool_calls))

\* the awaited inference call raises (network, auth)
inference_fails(r) ==
    /\ pc[r] = "infer"
    /\ LET s == [Local(r) EXCEPT !.replies = Append(@, Reply("", <<>>, TRUE))]
       IN  Commit(r, inference_failed(s))

\* the awaited underlying tool returns its result
tool_returns(r) ==
    /\ pc[r] = "tool"
    /\ Commit(r, tool_returned(Local(r)))

\* the awaited underlying tool raises
tool_raises(r) ==
    /\ pc[r] = "tool"
    /\ Commit(r, tool_raised(Local(r)))

\* app/main.py lifespan: connect_db at startup
lifespan ==
    /\ call.pc = "idle"
    /\ db_pool = None
    /\ CommitCall([LocalCall EXCEPT !.db_pool = "pool"])

\* combined_search is called, by the HTTP layer or as a tool
call_combined_search(variant, args) ==
    /\ call.pc = "idle"
    /\ CommitCall(combined_search(LocalCall, variant, args))

\* fetch_articles is called
call_fetch_articles ==
    /\ call.pc = "idle"
    /\ CommitCall(fetch_articles(LocalCall))

\* get_related_articles_agent is called
call_get_related_articles_agent(method) ==
    /\ call.pc = "idle"
    /\ CommitCall(get_related_articles_agent(LocalCall, method))

\* the embedding provider hands back emb
embedding_returns(emb) ==
    /\ call.pc = "embedding"
    /\ CommitCall(embedding_returned(LocalCall, emb))

\* the embedding provider raises (no key, network, rate limit)
embedding_raises ==
    /\ call.pc = "embedding"
    /\ CommitCall(embedding_raised(fails(LocalCall)))

\* connect_db: the awaited create_pool returns the pool
create_pool_returns ==
    /\ call.pc = "connect"
    /\ CommitCall(create_pool_returned(LocalCall))

\* connect_db: the awaited create_pool raises
create_pool_raises ==
    /\ call.pc = "connect"
    /\ CommitCall(raises(fails(LocalCall), "connection error"))

\* the awaited p.acquire() returns a connection
acquire_returns ==
    /\ call.pc = "acquire"
    /\ CommitCall(acquired(LocalCall))

\* the awaited p.acquire() raises: no connection was taken
acquire_raises ==
    /\ call.pc = "acquire"
    /\ CommitCall(raises(fails(LocalCall), "acquire error"))

\* the stage-1 query returns its rows
stage1_returns(candidates) ==
    /\ call.pc = "stage1"
    /\ CommitCall(stage1_returned(LocalCall, candidates))

\* the stage-2 query returns its rows
stage2_returns(ft_rows) ==
    /\ call.pc = "stage2"
    /\ CommitCall(stage2_returned(LocalCall, ft_rows))

\* fetchrow returns the embedding row of the article, or none
fetchrow_returns(found) ==
    /\ call.pc = "fetchrow"
    /\ CommitCall(fetchrow_returned(LocalCall, found))

\* the awaited conn.fetch of a fetch tool returns
fetch_returns ==
    /\ call.pc = "fetch"
    /\ CommitCall(fetch_returned(LocalCall))

\* the awaited query raises
query_raises ==
    /\ call.pc \in {"stage1", "stage2", "fetchrow", "fetch"}
    /\ CommitCall(query_raised(fails(LocalCall)))

\* the caller has taken the result or the exception: the frame is gone
call_ends ==
    /\ call.pc = "done"
    /\ CommitCall([LocalCall EXCEPT !.c = NoCall, !.log = <<>>])

\* POST /login with valid credentials
POST_login(q, user) ==
    /\ req[q].pc = "idle"
    /\ Len(RefreshToken) + Cardinality({p \in Reqs : req[p].after = 200 /\ req[p].op # "logout" /\ req[p].pc # "done"}) < MaxRows
    /\ CommitReq(q, login(LocalReq(q), user))

\* POST /refresh with a refresh_token in the body
POST_refresh(q, token) ==
    /\ req[q].pc = "idle"
    /\ Len(RefreshToken) + Cardinality({p \in Reqs : req[p].pc \notin {"idle", "done"} /\ req[p].op # "logout"}) < MaxRows
    /\ CommitReq(q, refresh_tokens(LocalReq(q), token))

\* POST /logout by an authenticated caller
POST_logout(q, caller, token, all_sessions) ==
    /\ req[q].pc = "idle"
    /\ CommitReq(q, logout(LocalReq(q), caller, token, all_sessions))

\* the awaited SELECT of refresh_tokens returns
select_returns(q) ==
    /\ req[q].pc = "select"
    /\ CommitReq(q, select_returned(LocalReq(q)))

\* the awaited flush of token_row.revoked = True returns, once no other
\* request holds the row
flush_revoke_returns(q) ==
    /\ req[q].pc = "flush_revoke"
    /\ \A p \in Reqs \ {q} : req[q].token_id \notin LockedRows(p)
    /\ CommitReq(q, flush_revoke_returned(LocalReq(q)))

\* the awaited flush of the new row returns, once no other request has an
\* uncommitted row with the same empty token
flush_insert_returns(q) ==
    /\ req[q].pc = "flush_insert"
    /\ \A p \in Reqs \ {q} : ~InsertPending(p)
    /\ CommitReq(q, flush_insert_returned(LocalReq(q)))

\* the awaited UPDATE ... SET revoked = true returns, once no other request
\* holds one of its rows
revoke_returns(q) ==
    /\ req[q].pc = "revoke"
    /\ \A p \in Reqs \ {q} : matched(LocalReq(q)) \cap LockedRows(p) = {}
    /\ CommitReq(q, revoke_returned(LocalReq(q)))

\* the awaited commit returns and the handler answers
commit_returns(q) ==
    /\ req[q].pc = "commit"
    /\ CommitReq(q, commit_returned(LocalReq(q)))

\* the response is sent and the handler's frame is gone
response_sent(q) ==
    /\ req[q].pc = "done"
    /\ CommitReq(q, [LocalReq(q) EXCEPT !.q = NoReq])

\* the web app has logged in, or restored a session
client_login(access_token, refresh_token) ==
    /\ client.pc \in {"idle", "returned", "raised"}
    /\ client' = set_tokens(client, access_token, refresh_token)
    /\ UNCHANGED <<authVars, agentVars, searchVars>>

\* the web app has logged out
client_logout ==
    /\ client.pc \in {"idle", "returned", "raised"}
    /\ client' = clear_tokens(client)
    /\ UNCHANGED <<authVars, agentVars, searchVars>>

\* AuthClient._protected_request is called
protected_request_called ==
    /\ client.pc \in {"idle", "returned", "raised"}
    /\ client' = protected_request(client)
    /\ UNCHANGED <<authVars, agentVars, searchVars>>

\* the server answers the request
response_arrives(status_code) ==
    /\ client.pc = "request"
    /\ client' = response_arrived(client, status_code)
    /\ UNCHANGED <<authVars, agentVars, searchVars>>

\* the server answers POST /refresh
refresh_arrives(status_code, access_token, refresh_token) ==
    /\ client.pc = "refresh"
    /\ client' = refresh_arrived(client, status_code, access_token,
                                 refresh_token)
    /\ UNCHANGED <<authVars, agentVars, searchVars>>

\* httpx raises (connection, timeout) and the call ends with the exception
transport_raises ==
    /\ client.pc \in {"request", "refresh"}
    /\ client' = [client EXCEPT !.pc = "raised"]
    /\ UNCHANGED <<authVars, agentVars, searchVars>>

\* a second passes
tick ==
    /\ now < MaxNow
    /\ now' = now + 1
    /\ UNCHANGED <<RefreshToken, req, clientVars, agentVars, searchVars>>

\* ----------------------------------------------------------- specifications
\* One run, started either way, against every model behaviour within bounds.
Next ==
    \E r \in {"r1"} :
        \/ \E goal \in Goals, n \in 0..MaxTurns : api_agent_loop(r, goal, n)
        \/ \E goal \in Goals, n \in 0..MaxTurns : JobStore_start(r, goal, n)
        \/ runner_starts(r)
        \/ \E content \in Contents \cup {""},
              raw \in ToolCallSeqs(turn[r], NamesTried, ArgsTried, MaxCalls) \cup {<<>>} :
                inference_returns(r, content, raw, MaxCalls, MaxHistory)
        \/ inference_fails(r)
        \/ tool_returns(r)
        \/ tool_raises(r)

Spec == Init /\ [][Next]_vars

\* Two runs started as background jobs, interleaved at their suspension points.
NextConc ==
    \E r \in Runs :
        \/ \E goal \in Goals, n \in 1..MaxTurnsConc : JobStore_start(r, goal, n)
        \/ runner_starts(r)
        \/ \E content \in {"answer", ""},
              raw \in ToolCallSeqs(turn[r], {"fetch_articles"}, {"json"}, MaxCallsConc) \cup {<<>>} :
                inference_returns(r, content, raw, MaxCallsConc, MaxHistoryConc)
        \/ inference_fails(r)
        \/ tool_returns(r)
        \/ tool_raises(r)

SpecConc == Init /\ [][NextConc]_vars

\* One run, started either way with any max_turns, whose awaited inference
\* calls and tools all come back: the event loop resumes the coroutine each
\* time, whatever the model answers.
NextTerm ==
    \E r \in {"r1"} :
        \/ \E goal \in Goals, n \in -1..MaxTurnsConc : api_agent_loop(r, goal, n)
        \/ \E goal \in Goals, n \in -1..MaxTurnsConc : JobStore_start(r, goal, n)
        \/ runner_starts(r)
        \/ \E content \in {"answer", ""},
              raw \in ToolCallSeqs(turn[r], NamesTried, ArgsTried, MaxCallsConc) \cup {<<>>} :
                inference_returns(r, content, raw, MaxCallsConc, MaxHistoryTerm)
        \/ tool_returns(r)
        \/ tool_raises(r)

SpecTerm == Init /\ [][NextTerm]_vars /\ WF_vars(NextTerm)

\* A background job of each store, interleaved at their suspension points,
\* with a sink that may raise at any of its calls.
NextJobs ==
    \/ \E goal \in Goals, n \in 0..MaxTurnsConc : JobStore_start("r1", goal, n)
    \/ \E goal \in Goals, n \in TurnsTried : api_agent_loop_start("r2", goal, n)
    \/ \E r \in Runs :
        \/ runner_starts(r)
        \/ api_runner_starts(r)
        \/ \E content \in {"answer", ""},
              raw \in ToolCallSeqs(turn[r], {"fetch_articles"}, {"json"}, MaxCallsConc) \cup {<<>>} :
                inference_returns(r, content, raw, MaxCallsConc, MaxHistoryConc)
        \/ inference_fails(r)
        \/ tool_returns(r)
        \/ tool_raises(r)
    \/ \E b \in SinkBehaviours : sink_changes(b)

SpecJobs == Init /\ [][NextJobs]_vars

\* One job of JobStore.start with every choice of hooks.
NextHooks ==
    \/ \E goal \in Goals, n \in 0..MaxTurnsConc,
          bind \in HookKinds, fin \in HookKinds :
            JobStore_start_with("r1", goal, n, bind, fin)
    \/ \E r \in {"r1"} :
        \/ runner_starts(r)
        \/ \E content \in {"answer", ""},
              raw \in ToolCallSeqs(turn[r], {"fetch_articles"}, {"json"}, MaxCallsConc) \cup {<<>>} :
                inference_returns(r, content, raw, MaxCallsConc, MaxHistoryConc)
        \/ inference_fails(r)
        \/ tool_returns(r)
        \/ tool_raises(r)

SpecHooks == Init /\ [][NextHooks]_vars

\* Storage tool calls one after another, against every behaviour of the
\* embedding provider and of the storage within bounds.
NextSearch ==
    \/ lifespan
    \/ \E variant \in Variants, args \in SearchArgs :
           call_combined_search(variant, args)
    \/ call_fetch_articles
    \/ \E method \in MethodsTried : call_get_related_articles_agent(method)
    \/ \E emb \in EmbeddingsTried : embedding_returns(emb)
    \/ embedding_raises
    \/ create_pool_returns
    \/ create_pool_raises
    \/ acquire_returns
    \/ acquire_raises
    \/ \E candidates \in CandidateSeqs(MaxCandidates) : stage1_returns(candidates)
    \/ \E ft_rows \in FtRowSets(call.ids) : stage2_returns(ft_rows)
    \/ \E found \in BOOLEAN : fetchrow_returns(found)
    \/ fetch_returns
    \/ query_raises
    \/ call_ends

SpecSearch == Init /\ [][NextSearch]_vars

\* Requests to the auth endpoints, two at a time, interleaved at their awaits,
\* within the lifetime of the tokens.
NextAuth ==
    \/ \E user \in Users : POST_login("q1", user)
    \/ \E caller \in Users, token \in TokensTried \cup {NoToken},
          all_sessions \in BOOLEAN :
            POST_logout("q1", caller, token, all_sessions)
    \/ \E q \in Reqs :
        \/ \E token \in TokensTried : POST_refresh(q, token)
        \/ select_returns(q)
        \/ flush_revoke_returns(q)
        \/ flush_insert_returns(q)
        \/ revoke_returns(q)
        \/ commit_returns(q)
        \/ response_sent(q)

SpecAuth == Init /\ [][NextAuth]_vars

\* Requests to the auth endpoints one after another, while time passes.
NextExpiry ==
    \/ \E user \in Users : POST_login("q1", user)
    \/ \E caller \in Users, token \in TokensTried \cup {NoToken},
          all_sessions \in BOOLEAN :
            POST_logout("q1", caller, token, all_sessions)
    \/ \E token \in TokensTried : POST_refresh("q1", token)
    \/ select_returns("q1")
    \/ flush_revoke_returns("q1")
    \/ flush_insert_returns("q1")
    \/ revoke_returns("q1")
    \/ commit_returns("q1")
    \/ response_sent("q1")
    \/ tick

SpecExpiry == Init /\ [][NextExpiry]_vars

\* Calls of the web client's _protected_request against a server that may
\* answer anything.
NextClient ==
    \/ \E access_token \in AccessTokens, refresh_token \in RefreshTokens \cup {None} :
          client_login(access_token, refresh_token)
    \/ client_logout
    \/ protected_request_called
    \/ \E status_code \in StatusCodes : response_arrives(status_code)
    \/ \E status_code \in StatusCodes, access_token \in AccessTokens,
          refresh_token \in RefreshTokens \cup {None} :
            refresh_arrives(status_code, access_token, refresh_token)
    \/ transport_raises

SpecClient == Init /\ [][NextClient]_vars

\* ============================================================== properties
\* helpers of the properties below
ToolOnly(rp) == ~rp.failed /\ rp.content = "" /\ rp.tool_calls # <<>>

ToolMsgs(h) == SelectSeq(h, LAMBDA m : m.role = "tool")

IdsOf(tool_calls) == {tool_calls[j].id : j \in 1..Len(tool_calls)}

\* the messages of a run: the conversation and the results not yet appended
Recorded(r) == history[r] \o tool_messages[r]

\* C1: against a model that answers every inference call with tool calls and
\* no content, agent_loop(goal, N), N >= 1, makes exactly N inference calls
\* and returns the fallback string.
C1_TurnCeiling ==
    \A r \in Runs :
        (/\ pc[r] = "exited"
         /\ max_turns[r] >= 1
         /\ \A i \in 1..Len(replies[r]) : ToolOnly(replies[r][i]))
        => /\ calls[r] = max_turns[r]
           /\ Len(replies[r]) = max_turns[r]
           /\ outcome[r] = "fallback"
           /\ retval[r] = FALLBACK

C1_Witness ==
    \E r \in Runs :
        /\ pc[r] = "exited"
        /\ max_turns[r] >= 2
        /\ Len(replies[r]) >= 2
        /\ \A i \in 1..Len(replies[r]) : ToolOnly(replies[r][i])

\* C2: when the first reply with content comes on turn k and the turns before
\* it carried only tool calls, agent_loop made exactly k inference calls, has
\* returned that content unchanged, and the conversation holds exactly one
\* tool message for every call requested in turns 1..k-1 (none for k = 1).
C2_FinishOnContent ==
    \A r \in Runs :
        \A k \in 1..Len(replies[r]) :
            (/\ replies[r][k].content # ""
             /\ \A i \in 1..(k - 1) : ToolOnly(replies[r][i]))
            => /\ pc[r] = "exited"
               /\ calls[r] = k
               /\ Len(replies[r]) = k
               /\ outcome[r] = "content"
               /\ retval[r] = replies[r][k].content
               /\ LET tm == ToolMsgs(history[r])
                      asked == UNION {IdsOf(replies[r][i].tool_calls) : i \in 1..(k - 1)}
                  IN  /\ \A n \in 1..Len(tm) : tm[n].tool_call_id \in asked
                      /\ \A id \in asked :
                            Cardinality({n \in 1..Len(tm) : tm[n].tool_call_id = id}) = 1

C2_Witness ==
    \E r \in Runs :
        /\ Len(replies[r]) = 3
        /\ replies[r][3].content = "answer"
        /\ ToolOnly(replies[r][1]) /\ ToolOnly(replies[r][2])
        /\ Len(ToolMsgs(history[r])) >= 2
        /\ retval[r] = "answer"

\* C3: at every inference call, each assistant message with K tool calls in
\* the conversation is followed at once by exactly K tool messages, the i-th
\* carrying the id of the i-th call, whatever the calls of the turn did.
WellPaired(h) ==
    \A i \in 1..Len(h) :
        (h[i].role = "assistant" /\ h[i].tool_calls # <<>>)
        => LET K == Len(h[i].tool_calls)
           IN  /\ i + K <= Len(h)
               /\ \A j \in 1..K :
                    /\ h[i + j].role = "tool"
                    /\ h[i + j].tool_call_id = h[i].tool_calls[j].id
               /\ (i + K < Len(h) => h[i + K + 1].role # "tool")

C3_ToolResultsFollow ==
    \A r \in Runs : pc[r] = "infer" => WellPaired(history[r])

C3_Witness ==
    \E r \in Runs :
        /\ pc[r] = "infer"
        /\ \E i \in 1..Len(history[r]) :
            /\ history[r][i].role = "assistant"
            /\ Len(history[r][i].tool_calls) = 2
            /\ i + 2 <= Len(history[r])
            /\ history[r][i + 1].content = "error: raised"
            /\ history[r][i + 2].content \in {"error: parse", "error: unknown function"}

\* the tool messages recorded for call id
MsgsFor(r, id) ==
    {n \in 1..Len(Recorded(r)) :
        Recorded(r)[n].role = "tool" /\ Recorded(r)[n].tool_call_id = id}

\* the calls the model has requested in tool-only replies (the dispatched ones)
Dispatched(r) ==
    UNION {{replies[r][k].tool_calls[j] : j \in 1..Len(replies[r][k].tool_calls)} :
            k \in {k \in 1..Len(replies[r]) : ToolOnly(replies[r][k])}}

\* the position of call id in the turn being dispatched (0: not of this turn)
PosInTurn(r, id) ==
    IF id \in IdsOf(pending[r])
    THEN CHOOSE j \in 1..Len(pending[r]) : pending[r][j].id = id
    ELSE 0

\* call id has been through the per-call body of the loop
Processed(r, id) ==
    \/ id \notin IdsOf(pending[r])
    \/ PosInTurn(r, id) < idx[r]

\* agent_loop is left by an exception only when an inference call failed
AbortsOnlyOnInference(r) ==
    outcome[r] = "raised" =>
        /\ replies[r] # <<>>
        /\ replies[r][Len(replies[r])].failed

\* after call id the loop goes on: the later calls of its turn are dispatched
\* and, the turn over, the next inference call is made if turns remain
GoesOnAfter(r, id) ==
    /\ AbortsOnlyOnInference(r)
    /\ id \in IdsOf(pending[r]) =>
        /\ pc[r] = "tool"
        /\ Len(tool_messages[r]) = idx[r] - 1
        /\ \A j \in 1..(idx[r] - 1) : tool_messages[r][j].tool_call_id = pending[r][j].id
    /\ id \notin IdsOf(pending[r]) =>
        \A k \in 1..Len(replies[r]) :
            (ToolOnly(replies[r][k]) /\ id \in IdsOf(replies[r][k].tool_calls))
            => /\ \A c \in IdsOf(replies[r][k].tool_calls) : Cardinality(MsgsFor(r, c)) = 1
               /\ IF k < max_turns[r]
                  THEN calls[r] >= k + 1
                  ELSE pc[r] = "exited" /\ outcome[r] = "fallback"

C5_ToolFailureAbsorbed ==
    \A r \in Runs : \A w \in wrapped[r] :
        w[2] = "raised" =>
            /\ Cardinality(MsgsFor(r, w[1])) = 1
            /\ \A n \in MsgsFor(r, w[1]) : Recorded(r)[n].content = "error: raised"
            /\ GoesOnAfter(r, w[1])

C5_Witness ==
    \E r \in Runs : \E i \in 1..Len(history[r]) :
        /\ pc[r] = "infer"
        /\ calls[r] >= 2
        /\ history[r][i].role = "assistant"
        /\ Len(history[r][i].tool_calls) = 2
        /\ <<history[r][i].tool_calls[1].id, "raised">> \in wrapped[r]
        /\ <<history[r][i].tool_calls[2].id, "returned">> \in wrapped[r]

\* C6: for a call of a name that is not registered no tool is invoked, an
\* error tool message tagged with the call's id is recorded, and the loop
\* goes on.
C6_UnknownToolAbsorbed ==
    \A r \in Runs : \A tc \in Dispatched(r) :
        (tc.arguments = "json" /\ tc.name \notin FUNCTIONS) =>
            /\ tc.id \notin invoked[r]
            /\ Processed(r, tc.id) =>
                /\ Cardinality(MsgsFor(r, tc.id)) = 1
                /\ \A n \in MsgsFor(r, tc.id) :
                      /\ Recorded(r)[n].content = "error: unknown function"
                      /\ Recorded(r)[n].name = tc.name
            /\ GoesOnAfter(r, tc.id)

C6_Witness ==
    \E r \in Runs : \E i \in 1..Len(history[r]) :
        /\ pc[r] = "infer"
        /\ calls[r] >= 2
        /\ history[r][i].role = "assistant"
        /\ Len(history[r][i].tool_calls) = 2
        /\ history[r][i].tool_calls[1].name \notin FUNCTIONS
        /\ history[r][i].tool_calls[1].arguments = "json"
        /\ history[r][i + 1].content = "error: unknown function"
        /\ history[r][i + 2].content = "result"

\* C7: for a call whose arguments do not parse no tool is invoked, registered
\* name or not, a parse-error tool message tagged with the call's id is
\* recorded, and the loop goes on.
C7_BadArgumentsAbsorbed ==
    \A r \in Runs : \A tc \in Dispatched(r) :
        tc.arguments = "malformed" =>
            /\ tc.id \notin invoked[r]
            /\ \A w \in wrapped[r] : w[1] # tc.id
            /\ Processed(r, tc.id) =>
                /\ Cardinality(MsgsFor(r, tc.id)) = 1
                /\ \A n \in MsgsFor(r, tc.id) :
                      /\ Recorded(r)[n].content = "error: parse"
                      /\ Recorded(r)[n].name = tc.name
            /\ GoesOnAfter(r, tc.id)

C7_Witness ==
    \E r \in Runs : \E i \in 1..Len(history[r]) :
        /\ pc[r] = "infer"
        /\ calls[r] >= 2
        /\ history[r][i].role = "assistant"
        /\ Len(history[r][i].tool_calls) = 2
        /\ history[r][i].tool_calls[1].name \in FUNCTIONS
        /\ history[r][i].tool_calls[1].arguments = "malformed"
        /\ history[r][i + 1].content = "error: parse"
        /\ history[r][i + 2].content = "result"

\* C8: a failed inference call ends agent_loop with that failure: no answer
\* and no fallback string is returned, and no inference call and no tool call
\* is made after it.
C8_InferenceFailurePropagates ==
    \A r \in Runs : \A k \in 1..Len(replies[r]) :
        replies[r][k].failed =>
            /\ k = Len(replies[r])
            /\ calls[r] = k
            /\ pc[r] = "exited"
            /\ outcome[r] = "raised"
            /\ retval[r] = None
            /\ invoked[r] \subseteq
                 UNION {IdsOf(replies[r][i].tool_calls) : i \in 1..(k - 1)}

C8_Witness ==
    \E r \in Runs :
        /\ Len(replies[r]) >= 2
        /\ replies[r][Len(replies[r])].failed
        /\ max_turns[r] > Len(replies[r])
        /\ invoked[r] # {}
        /\ outcome[r] = "raised"

\* C9: with the sink held in one process-wide reference, two concurrent runs
\* that each bound their own reporter can interleave so that a progress line
\* of a tool call of one run lands in the other job's log.  A line goes to the
\* reporter that is bound when it is emitted, whichever run emits it.
C9_DeliveredToBoundReporter ==
    [][\A j \in DOMAIN jobs :
          Len(jobs'[j].log) > Len(jobs[j].log) =>
              /\ progress_cb = j
              /\ jobs[j].status = "running"
              /\ \A n \in (Len(jobs[j].log) + 1)..Len(jobs'[j].log) :
                    pc[jobs'[j].log[n].from] \in {"infer", "tool"}]_vars

C9_Witness ==
    \E i \in Runs, j \in Runs :
        /\ i # j
        /\ i \in DOMAIN jobs /\ j \in DOMAIN jobs
        /\ jobs[i].started_at # None /\ jobs[j].started_at # None
        /\ \E n \in 1..Len(jobs[j].log) : jobs[j].log[n].from = i

Asked(what) == Len(SelectSeq(log, LAMBDA e : e = what))

\* the ids of a sequence of rows, in order
Ids(rows) == [i \in 1..Len(rows) |-> rows[i].id]

\* C11: when the stage-1 query of combined_search has answered with no
\* candidates, the call has returned the empty list and the stage-2 query
\* has not been sent.
C11_EmptyCandidatesShortCircuit ==
    (call.op = "combined_search" /\ "stage1" \in call.answered
        /\ call.candidates = <<>>)
    => /\ call.pc = "done"
       /\ call.outcome = "returned"
       /\ call.result = <<>>
       /\ Asked("stage2") = 0

C11_Witness ==
    /\ call.op = "combined_search"
    /\ call.variant = "search_combined"
    /\ "stage1" \in call.answered
    /\ call.candidates = <<>>
    /\ call.outcome = "returned"

\* C12: whatever integer X combined_search is given as preselect, the limit
\* its stage-1 query is sent with is max(10, min(X, 2000)): 10 for X below
\* 10 (zero and negative included), 2000 for X above 2000, X otherwise.
C12_PreselectClamped ==
    (call.op = "combined_search" /\ Asked("stage1") > 0)
    => call.stage1_limit =
           (IF call.preselect_arg < 10 THEN 10
            ELSE IF call.preselect_arg > 2000 THEN 2000
            ELSE call.preselect_arg)

C12_Witness ==
    /\ call.op = "combined_search"
    /\ call.pc = "stage1"
    /\ call.preselect_arg = -5
    /\ call.stage1_limit = 10

\* combined_search has gone through both stages and returned
Ranked == call.op = "combined_search" /\ "stage2" \in call.answered

\* the fused scores of the stage-1 rows of the call, in stage-1 order
Fused == score_rows(call.variant, call.candidates, call.ft_rows, call.alpha)

\* rows holds each candidate at most once, with its fused score
OfCandidates(rows) ==
    /\ \A j \in 1..Len(rows) :
           \E i \in 1..Len(call.candidates) : rows[j] = Fused[i]
    /\ \A j, k \in 1..Len(rows) : rows[j].id = rows[k].id => j = k

\* no row of rows has a smaller score than a later row or a left-out candidate
BestFirst(rows) ==
    /\ \A j, k \in 1..Len(rows) :
           j < k => RatLeq(rows[k].score, rows[j].score)
    /\ \A i \in 1..Len(call.candidates) :
           (\A j \in 1..Len(rows) : rows[j].id # Fused[i].id)
           => \A j \in 1..Len(rows) : RatLeq(Fused[i].score, rows[j].score)

\* C13: what combined_search returns is the stage-1 candidate set in
\* non-increasing order of fused score, cut to the best `limit`: for every
\* limit >= 0 its length is min(limit, number of candidates).
C13_SortedAndTruncated ==
    (Ranked /\ call.limit >= 0)
    => /\ OfCandidates(call.result)
       /\ BestFirst(call.result)
       /\ Len(call.result) = Min(call.limit, Len(call.candidates))

\* search_combined.py returns more rows than the limit it was given
C13_Witness ==
    /\ Ranked
    /\ call.variant = "search_combined"
    /\ call.limit = 1
    /\ Len(call.candidates) = 2
    /\ Len(call.result) = 2

\* the example of the specification: search.py's combined_search called with
\* limit=5, preselect=50, alpha=0.7 has got three candidates at distances
\* 0.1, 0.5, 0.9 with raw full-text scores 0.2, 0.8, 0.0, and has returned
Example ==
    /\ Ranked
    /\ call.variant = "search"
    /\ call.limit = 5
    /\ call.preselect_arg = 50
    /\ call.alpha = Rat(7, 10)
    /\ call.candidates = <<[id |-> 0, distance |-> Rat(1, 10)],
                           [id |-> 1, distance |-> Rat(5, 10)],
                           [id |-> 2, distance |-> Rat(9, 10)]>>
    /\ DOMAIN call.ft_rows = {0, 1, 2}
    /\ call.ft_rows[0] = Rat(2, 10)
    /\ call.ft_rows[1] = Rat(8, 10)
    /\ call.ft_rows[2] = Rat(0, 10)

\* C14 as the specification states it: in the example the articles come
\* back in the order article_0, article_1, article_2.
C14_ExampleOrderAsStated == Example => Ids(call.result) = <<0, 1, 2>>

\* C14, amended: in the example the articles come back in the order
\* article_1, article_0, article_2, the raw scores being divided by their
\* maximum 0.8: the fused scores are 0.7/1.1 + 0.3 * 0.25, 0.7/1.5 + 0.3 * 1
\* and 0.7/1.9 + 0.
C14_ExampleOrder ==
    Example
    => /\ Ids(call.result) = <<1, 0, 2>>
       /\ call.result[1].score = RatAdd(Rat(7, 15), Rat(3, 10))
       /\ call.result[2].score = RatAdd(Rat(7, 11), Rat(3, 40))
       /\ call.result[3].score = Rat(7, 19)

C14_Witness == Example /\ Len(call.result) = 3

\* the stage-1 distance and the raw full-text score of the candidate id
DistanceOf(id) ==
    call.candidates[CHOOSE i \in 1..Len(call.candidates) :
                        call.candidates[i].id = id].distance
RawFtOf(id) == get(ft_scores_of(call.ft_rows), id, Zero)
NormalizedOf(id) ==
    normalized(call.variant, RawFtOf(id), max_ft_of(ft_scores_of(call.ft_rows)))

CandidateIds == {call.candidates[i].id : i \in 1..Len(call.candidates)}

\* no two candidates of the call agree on F
PairwiseDistinct(F(_)) ==
    \A a, b \in CandidateIds : a # b => F(a) # F(b)

\* rows is a leading part of the candidates put in decreasing order of F
LeadingByDecreasing(rows, F(_)) ==
    /\ \A j, k \in 1..Len(rows) : j < k => RatLess(F(rows[k].id), F(rows[j].id))
    /\ \A a \in CandidateIds \ {rows[j].id : j \in 1..Len(rows)} :
           \A j \in 1..Len(rows) : RatLess(F(a), F(rows[j].id))

\* rows is a leading part of the candidates put in increasing order of F
LeadingByIncreasing(rows, F(_)) ==
    /\ \A j, k \in 1..Len(rows) : j < k => RatLess(F(rows[j].id), F(rows[k].id))
    /\ \A a \in CandidateIds \ {rows[j].id : j \in 1..Len(rows)} :
           \A j \in 1..Len(rows) : RatLess(F(rows[j].id), F(a))

\* C15 as the specification states it: over candidates with pairwise distinct
\* distances and pairwise distinct full-text scores, alpha = 1.0 returns them
\* by increasing distance and alpha = 0.0 by decreasing full-text score.
C15_AlphaDegenerateAsStated ==
    (Ranked /\ PairwiseDistinct(DistanceOf) /\ PairwiseDistinct(RawFtOf))
    => /\ call.alpha = One => LeadingByIncreasing(call.result, DistanceOf)
       /\ call.alpha = Zero => LeadingByDecreasing(call.result, RawFtOf)

\* C15, amended: over candidates with pairwise distinct distances alpha = 1.0
\* returns them by increasing distance; alpha = 0.0 returns them by
\* decreasing full-text score when their normalized scores are pairwise
\* distinct, which distinct raw scores always are under search.py's division
\* by the maximum; under search_combined.py's sigmoid raw scores that all
\* saturate to 1.0 tie, and the candidates come back in stage-1 order.
C15_AlphaDegenerate ==
    Ranked
    => /\ (call.alpha = One /\ PairwiseDistinct(DistanceOf))
              => LeadingByIncreasing(call.result, DistanceOf)
       /\ (call.alpha = Zero /\ PairwiseDistinct(NormalizedOf))
              => LeadingByDecreasing(call.result, RawFtOf)
       /\ (call.variant = "search" /\ PairwiseDistinct(RawFtOf))
              => PairwiseDistinct(NormalizedOf)
       /\ (call.alpha = Zero /\ call.variant = "search_combined"
              /\ \A a \in CandidateIds : NormalizedOf(a) = One)
              => Ids(call.result) = Ids(call.candidates)

\* distinct raw scores 8 and 9, alpha = 0.0, and the lower score comes first
C15_Witness ==
    /\ Ranked
    /\ call.variant = "search_combined"
    /\ call.alpha = Zero
    /\ Len(call.candidates) = 2
    /\ PairwiseDistinct(DistanceOf)
    /\ DOMAIN call.ft_rows = {0, 1}
    /\ call.ft_rows[0] = Rat(8, 1)
    /\ call.ft_rows[1] = Rat(9, 1)
    /\ Ids(call.result) = <<0, 1>>

InUnitInterval(x) == RatLeq(Zero, x) /\ RatLeq(x, One)

\* C16: with alpha in [0,1], distances >= 0 and raw full-text scores >= 0,
\* every candidate's normalized full-text value lies in [0,1] and so does its
\* fused score alpha * similarity + (1 - alpha) * normalized value.
C16_ScoresInUnitInterval ==
    (/\ Ranked
     /\ InUnitInterval(call.alpha)
     /\ \A a \in CandidateIds :
            RatLeq(Zero, DistanceOf(a)) /\ RatLeq(Zero, RawFtOf(a)))
    => \A i \in 1..Len(call.candidates) :
          /\ InUnitInterval(NormalizedOf(Fused[i].id))
          /\ InUnitInterval(Fused[i].score)
          /\ Fused[i].score =
                 RatAdd(RatMul(call.alpha, similarity(call.candidates[i].distance)),
                        RatMul(RatSub(One, call.alpha), NormalizedOf(Fused[i].id)))

\* both ends of the interval are taken: alpha = 0.7, a candidate at distance 0
\* with the largest raw score and one with fused score below a half
C16_Witness ==
    /\ Ranked
    /\ call.variant = "search"
    /\ call.alpha = Rat(7, 10)
    /\ Len(call.result) = 2
    /\ call.result[1].score = One
    /\ NormalizedOf(call.result[2].id) = Zero

C18_ConnectionReleased ==
    /\ held = (IF call.conn THEN 1 ELSE 0)
    /\ call.conn <=> call.pc \in {"stage1", "stage2", "fetchrow", "fetch"}
    /\ call.pc \in {"idle", "done"}
          => /\ held = 0
             /\ Asked("release") =
                   (IF \E q \in {"stage1", "stage2", "fetchrow", "fetch"} :
                          Asked(q) > 0
                    THEN 1 ELSE 0)

\* the stage-2 query of combined_search has raised and nothing is held
C18_Witness ==
    /\ call.op = "combined_search"
    /\ call.pc = "done"
    /\ call.failed = "stage2"
    /\ log = <<"get_query_embedding", "acquire", "stage1", "stage2", "release">>
    /\ held = 0

\* C19: when the embedding provider or one of the two queries fails,
\* combined_search ends with that exception and returns nothing; and in one
\* call the provider is asked exactly once and each query at most once.
C19_FailuresPropagateNoRetry ==
    call.op = "combined_search"
    => /\ Asked("get_query_embedding") = 1
       /\ Asked("stage1") <= 1
       /\ Asked("stage2") <= 1
       /\ call.failed \in {"embedding", "stage1", "stage2"}
             => /\ call.pc = "done"
                /\ call.outcome = "raised"
                /\ call.error # None
                /\ call.result = <<>>

\* the provider has failed and combined_search has ended with an exception
C19_Witness ==
    /\ call.op = "combined_search"
    /\ call.failed = "embedding"
    /\ call.outcome = "raised"
    /\ log = <<"get_query_embedding">>

\* C20: when the embedding obtained is empty or None, combined_search has
\* returned the empty list: no exception, no use of the pool, no connection
\* acquired and no query sent.
C20_EmptyEmbeddingShortCircuit ==
    (call.op = "combined_search" /\ call.emb \in {"empty", None})
    => /\ call.pc = "done"
       /\ call.outcome = "returned"
       /\ call.result = <<>>
       /\ call.error = None
       /\ log = <<"get_query_embedding">>
       /\ held = 0

\* an absent embedding, and a pool that was never created: still no exception
C20_Witness ==
    /\ call.op = "combined_search"
    /\ call.variant = "search"
    /\ call.emb = None
    /\ db_pool = None
    /\ call.outcome = "returned"

\* --------------------------------------------------------- background jobs
\* the runs that were started as background jobs, of either store
JobRuns == {r \in Runs : entry[r] \in {"job", "api_job"}}

\* the record of the job of run r, in the store it was started in
JobOf(r) == IF entry[r] = "job" THEN jobs[r] ELSE JOBS[r]

\* C21: when agent_loop raises inside a background job the runner records it
\* (status error, the exception's text in the error field, finished_at set)
\* and its task ends without an exception; when agent_loop returns, the job
\* ends done with the returned value as its result.
C21_RunnerRecordsOutcome ==
    \A r \in JobRuns :
        pc[r] = "exited" =>
            /\ task[r] = "finished"
            /\ JobOf(r).finished_at # None
            /\ outcome[r] = "raised" =>
                  /\ JobOf(r).status = "error"
                  /\ JobOf(r).error = "inference error"
                  /\ JobOf(r).result = None
            /\ outcome[r] \in {"content", "fallback"} =>
                  /\ JobOf(r).status = "done"
                  /\ JobOf(r).result = retval[r]
                  /\ JobOf(r).error = None

C21_Witness ==
    \E r \in Runs, q \in Runs :
        /\ entry[r] = "job" /\ entry[q] = "api_job"
        /\ pc[r] = "exited" /\ pc[q] = "exited"
        /\ outcome[r] = "raised" /\ outcome[q] = "content"
        /\ calls[r] > 1

\* JobStore.get: the record, or None for an unknown id
JobStore_get(js, job_id) == IF job_id \in DOMAIN js THEN js[job_id] ELSE None

Statuses == {"queued", "running", "done", "error"}

\* one step of a job's status along queued -> running -> (done | error); a
\* runner whose agent_loop returns without an inference call goes through
\* running inside one uninterrupted step
Forward(a, b, r) ==
    \/ a = b
    \/ a = "queued" /\ b = "running"
    \/ a = "running" /\ b \in {"done", "error"}
    \/ a = "queued" /\ b = "done" /\ calls'[r] = 0

\* C22: a job that start has stored is found by every later status query
\* with a status among queued, running, done and error; the status only moves
\* queued -> running -> (done | error), and done and error are never left.
C22_StatusMovesForward ==
    [][\A r \in Runs :
          /\ r \in DOMAIN JOBS =>
                /\ api_agent_loop_status(JOBS, r).status \in Statuses
                /\ api_agent_loop_status(JOBS', r).code = 200
                /\ api_agent_loop_status(JOBS', r).status \in Statuses
                /\ Forward(JOBS[r].status, JOBS'[r].status, r)
                /\ JOBS'[r].status # "queued" => JOBS'[r].started_at # None
          /\ r \in DOMAIN jobs =>
                /\ JobStore_get(jobs, r).status \in Statuses
                /\ r \in DOMAIN jobs'
                /\ JobStore_get(jobs', r).status \in Statuses
                /\ Forward(jobs[r].status, jobs'[r].status, r)
                /\ jobs'[r].status # "queued" => jobs'[r].started_at # None]_vars

C22_Witness ==
    \E r \in Runs, q \in Runs :
        /\ r \in DOMAIN JOBS /\ q \in DOMAIN jobs
        /\ api_agent_loop_status(JOBS, r).status = "error"
        /\ JobStore_get(jobs, q).status = "done"
        /\ calls[q] = 0

\* ---------------------------------------------------------- progress lines
\* the progress lines run r emitted about tool call id that job j recorded
LinesOf(j, r, id) ==
    LET about == SelectSeq(jobs[j].log, LAMBDA l : l.from = r /\ l.id = id)
    IN  [n \in 1..Len(about) |-> about[n].line]

ContentsIn(rec, id) ==
    {rec[n].content :
        n \in {n \in 1..Len(rec) : rec[n].role = "tool" /\ rec[n].tool_call_id = id}}

\* how many tool messages for call id there are among the messages rec
CountIn(rec, id) ==
    Cardinality({n \in 1..Len(rec) :
                    rec[n].role = "tool" /\ rec[n].tool_call_id = id})

\* C24: whatever the bound sink does when it is called (record, raise inside
\* its own on_progress, raise), the registry entry calls the underlying tool
\* once, after the start line and before anything is recorded for the call,
\* and when the tool returns its result is what the loop records.
C24_SinkFailureSwallowed ==
    [][\A r \in Runs :
          /\ (pc'[r] = "tool" /\ (pc[r] # "tool" \/ idx'[r] # idx[r])) =>
                /\ invoked'[r] = invoked[r] \cup {pending'[r][idx'[r]].id}
                /\ pending'[r][idx'[r]].id \notin invoked[r]
                /\ CountIn(Recorded(r)', pending'[r][idx'[r]].id) = 0
          /\ (pc'[r] = "tool" /\ pc[r] = "tool" /\ idx'[r] = idx[r]) =>
                invoked'[r] = invoked[r]
          /\ pc'[r] # "tool" => invoked'[r] = invoked[r]
          /\ tool_returns(r) =>
                /\ pending[r][idx[r]].id \in invoked[r]
                /\ <<pending[r][idx[r]].id, "raised">> \notin wrapped'[r]
                /\ ContentsIn(Recorded(r)', pending[r][idx[r]].id) = {"result"}
                /\ CountIn(Recorded(r)', pending[r][idx[r]].id) = 1]_vars

C24_Witness ==
    \E r \in Runs : \E w \in wrapped[r] :
        /\ entry[r] = "job"
        /\ \A q \in Runs \ {r} : entry[q] = None
        /\ w[2] = "returned"
        /\ ContentsIn(Recorded(r), w[1]) = {"result"}
        /\ LinesOf(r, r, w[1]) = <<>>

\* ------------------------------------------------------------- termination
\* C29: whatever the model answers (content, tool calls, both, neither) and
\* whatever max_turns is, a run whose inference calls and tools all come back
\* exits, having made at most max_turns inference calls; with max_turns <= 0
\* it makes none and returns the fallback string.
C29_TerminatesWithinCeiling ==
    (entry["r1"] # None) ~>
        (/\ pc["r1"] = "exited"
         /\ calls["r1"] <= Max(0, max_turns["r1"])
         /\ max_turns["r1"] <= 0 =>
               /\ calls["r1"] = 0
               /\ outcome["r1"] = "fallback"
               /\ retval["r1"] = FALLBACK)

C29_Witness ==
    \E r \in Runs :
        /\ pc[r] = "exited"
        /\ outcome[r] = "fallback"
        /\ max_turns[r] >= 2
        /\ calls[r] = max_turns[r]
        /\ \E i \in 1..Len(replies[r]) :
              replies[r][i].content = "" /\ replies[r][i].tool_calls = <<>>
        /\ \E i \in 1..Len(replies[r]) : replies[r][i].tool_calls # <<>>

\* ------------------------------------------------------------ conversation
IsPrefix(a, b) == Len(a) <= Len(b) /\ SubSeq(b, 1, Len(a)) = a

\* C30: the conversation handed to every inference call starts with the
\* system instructions and then the user's goal, and from one inference call
\* to the next the conversation only grows at its end.
C30_SeededAndAppendOnly ==
    [][\A r \in Runs :
          /\ pc'[r] = "infer" =>
                /\ Len(history'[r]) >= 2
                /\ history'[r][1] = SystemMessage
                /\ history'[r][2] = UserMessage(user_goal'[r])
          /\ pc[r] \in {"infer", "tool"} => IsPrefix(history[r], history'[r])]_vars

C30_Witness ==
    \E r \in Runs :
        /\ pc[r] = "infer"
        /\ calls[r] >= 3
        /\ Len(history[r]) >= 7
        /\ history[r][1] = SystemMessage
        /\ history[r][2] = UserMessage(user_goal[r])

\* ------------------------------------------------------------ auth endpoints
\* the rows stored by refreshes that accepted the token of row id
RotationsOf(t, id) == {n \in DOMAIN t : t[n].rotated_from = id}

\* request q answers 200 to a POST /refresh in this step
RefreshSucceeds(q) ==
    /\ req[q].op = "refresh"
    /\ req[q].pc = "commit"
    /\ req'[q].pc = "done"
    /\ req'[q].code = 200

\* C25: a successful POST /refresh revokes the presented row and stores a
\* new, non-revoked row whose token is the one returned; no refresh token is
\* accepted by more than one refresh call.
C25_RotatesAndAcceptsOnce ==
    [][\A q \in Reqs :
          RefreshSucceeds(q) =>
              /\ RefreshToken'[req[q].token_id].revoked
              /\ \E n \in DOMAIN RefreshToken' \ DOMAIN RefreshToken :
                    /\ RefreshToken'[n].token = req'[q].body
                    /\ ~RefreshToken'[n].revoked
              /\ \A id \in DOMAIN RefreshToken' :
                    Cardinality(RotationsOf(RefreshToken', id)) <= 1]_vars

\* two overlapping refreshes of one token have both returned a new pair
C25_Witness ==
    \E id \in DOMAIN RefreshToken :
        /\ Cardinality(RotationsOf(RefreshToken, id)) = 2
        /\ \A n \in RotationsOf(RefreshToken, id) : ~RefreshToken[n].revoked

\* the presented row of request q exists, is not revoked and has expired
PresentedRowExpired(q) ==
    LET id == scalar_one_or_none(RefreshToken, req[q].token_id, req[q].token)
    IN  /\ id # 0
        /\ ~RefreshToken[id].revoked
        /\ RefreshToken[id].expires_at <= now

\* request q is rejected with 401, returns no token pair and writes no row
RejectedUntouched(q) ==
    /\ req'[q].pc = "done"
    /\ req'[q].code = 401
    /\ req'[q].body = NoToken
    /\ RefreshToken' = RefreshToken

\* C28: POST /refresh with a token whose type is not refresh, or whose stored
\* row exists, is not revoked but has expired, is answered 401 without a new
\* token pair, and every stored row stays as it was.
C28_RejectedWithoutWrites ==
    [][\A q \in Reqs :
          /\ (/\ req[q].pc = "idle"
              /\ req'[q].op = "refresh"
              /\ req'[q].token.type \notin {"refresh", "malformed"})
                 => RejectedUntouched(q)
          /\ (/\ req[q].op = "refresh"
              /\ req[q].pc = "select"
              /\ req'[q].pc # "select"
              /\ PresentedRowExpired(q))
                 => RejectedUntouched(q)]_vars

\* a refresh presenting a live row that has expired has been answered 401
C28_Witness ==
    \E q \in Reqs, id \in DOMAIN RefreshToken :
        /\ req[q].op = "refresh"
        /\ req[q].pc = "done"
        /\ req[q].code = 401
        /\ req[q].token = RefreshToken[id].token
        /\ ~RefreshToken[id].revoked
        /\ RefreshToken[id].expires_at <= now
        /\ decode_token(req[q].token, now).ok

\* request q starts a POST /logout that carries a refresh token of a user
\* other than its caller
LogoutWithForeignToken(q) ==
    /\ req[q].pc = "idle"
    /\ req'[q].op = "logout"
    /\ req'[q].token.type = "refresh"
    /\ req'[q].token.sub # req'[q].caller

\* request q is answered with the code and has written no row
AnsweredUntouched(q, code) ==
    /\ req'[q].pc = "done"
    /\ req'[q].code = code
    /\ RefreshToken' = RefreshToken

\* C27 as stated: POST /logout with a refresh token whose subject is a user
\* other than the caller is answered 403 and revokes no refresh token.
C27_ForeignTokenAlways403 ==
    [][\A q \in Reqs :
          LogoutWithForeignToken(q) => AnsweredUntouched(q, 403)]_vars

\* C27: POST /logout without all_sessions, with a refresh token that decodes
\* and whose subject is a user other than the caller, is answered 403 and
\* revokes nothing; one that has expired is answered 400 and revokes nothing;
\* and no logout ever revokes a row of a user other than its caller.
C27_ForeignTokenNeverRevoked ==
    [][\A q \in Reqs :
          /\ (LogoutWithForeignToken(q) /\ req'[q].where # "user")
                 => IF decode_token(req'[q].token, now).ok
                    THEN AnsweredUntouched(q, 403)
                    ELSE AnsweredUntouched(q, 400)
          /\ req[q].op = "logout"
                 => \A id \in DOMAIN RefreshToken :
                        RefreshToken'[id].revoked /\ ~RefreshToken[id].revoked
                            => RefreshToken[id].user_id = req[q].caller]_vars

\* a logout with another user's live refresh token has been answered 403 and
\* that token's row is still not revoked
C27_Witness ==
    \E q \in Reqs, id \in DOMAIN RefreshToken :
        /\ req[q].op = "logout"
        /\ req[q].pc = "done"
        /\ req[q].code = 403
        /\ req[q].token = RefreshToken[id].token
        /\ RefreshToken[id].user_id # req[q].caller
        /\ ~RefreshToken[id].revoked

\* ------------------------------------------------------------ the web client
\* C26: one call of _protected_request sends the request once; it calls
\* refresh() only after a first response of 401, at most once; it sends the
\* request a second time only after that refresh succeeded, with the access
\* token the refresh was granted, and then returns the second response
\* whatever its status; otherwise it returns the first response. Never more
\* than two sends or one refresh.
C26_OneRefreshOneRetry ==
    /\ client.sends <= 2
    /\ client.refreshes <= 1
    /\ client.pc # "idle" => client.sends >= 1
    /\ client.refreshes = 1 => client.first = 401
    /\ client.sends = 2 =>
           /\ client.refreshes = 1
           /\ client.refreshed
           /\ client.sent_with[2] = {<<"Authorization", client.granted>>}
    /\ client.pc = "returned" =>
           /\ client.refreshed => client.sends = 2
           /\ client.result = IF client.sends = 2 THEN client.second
                              ELSE client.first

\* the retried request was answered 401 again and that response was returned
C26_Witness ==
    /\ client.pc = "returned"
    /\ client.first = 401
    /\ client.refreshed
    /\ client.sends = 2
    /\ client.second = 401
    /\ client.result = 401
    /\ client.sent_with[1] # client.sent_with[2]

\* ------------------------------------------------- responses of either kind
\* the inference call of run r returns in this step
InferenceAnswered(r) ==
    /\ pc[r] = "infer"
    /\ Len(replies'[r]) = Len(replies[r]) + 1
    /\ ~replies'[r][Len(replies'[r])].failed

\* the response run r has just received
Answer(r) == replies'[r][Len(replies'[r])]

\* C31: a response with neither content nor tool calls uses up one turn,
\* dispatches no tool and leaves the conversation as it was; the next
\* inference call is made with that same conversation if a turn remains, and
\* else the fallback string is returned.
C31_EmptyResponseSkipsTurn ==
    [][\A r \in Runs :
          (/\ InferenceAnswered(r)
           /\ Answer(r).content = ""
           /\ Answer(r).tool_calls = <<>>)
          => /\ turn'[r] = turn[r] + 1
             /\ invoked'[r] = invoked[r]
             /\ wrapped'[r] = wrapped[r]
             /\ history'[r] = history[r]
             /\ IF turn[r] + 1 < max_turns[r]
                THEN /\ pc'[r] = "infer"
                     /\ calls'[r] = calls[r] + 1
                ELSE /\ pc'[r] = "exited"
                     /\ calls'[r] = calls[r]
                     /\ outcome'[r] = "fallback"
                     /\ retval'[r] = FALLBACK]_vars

\* after a response that carried nothing the run waits for its next inference
\* call, with the two seed messages only
C31_Witness ==
    \E r \in Runs :
        /\ pc[r] = "infer"
        /\ replies[r] # <<>>
        /\ replies[r][Len(replies[r])] = Reply("", <<>>, FALSE)
        /\ calls[r] = Len(replies[r]) + 1
        /\ Len(history[r]) = 2

\* C32: a response with both content and tool calls ends the run with that
\* content as its value; none of the requested tools is dispatched and
\* nothing is appended to the conversation.
C32_ContentWinsOverToolCalls ==
    [][\A r \in Runs :
          (/\ InferenceAnswered(r)
           /\ Answer(r).content # ""
           /\ Answer(r).tool_calls # <<>>)
          => /\ pc'[r] = "exited"
             /\ outcome'[r] = "content"
             /\ retval'[r] = Answer(r).content
             /\ invoked'[r] = invoked[r]
             /\ wrapped'[r] = wrapped[r]
             /\ history'[r] = history[r]
             /\ calls'[r] = calls[r]]_vars

\* a run has ended with the content of a response that also asked for a
\* registered tool, and no tool of that response was called
C32_Witness ==
    \E r \in Runs :
        /\ pc[r] = "exited"
        /\ outcome[r] = "content"
        /\ replies[r] # <<>>
        /\ LET last == replies[r][Len(replies[r])]
           IN  /\ last.content = retval[r]
               /\ last.tool_calls # <<>>
               /\ \E j \in 1..Len(last.tool_calls) :
                     /\ resolve(last.tool_calls[j]) = "call"
                     /\ last.tool_calls[j].id \notin invoked[r]

\* ------------------------------------------------- candidates and stage 2
\* the normalized full-text value of a raw score of 0.0: search.py divides it
\* by the maximum, search_combined.py puts it through the sigmoid
NormalizedZero == IF call.variant = "search" THEN Zero ELSE Rat(1, 2)

\* what a candidate without a stage-2 row must score
ScoreWithoutRow(i) ==
    RatAdd(RatMul(call.alpha, similarity(call.candidates[i].distance)),
           RatMul(RatSub(One, call.alpha), NormalizedZero))

\* C33: stage 2 is asked about exactly the ids of the stage-1 candidates;
\* every article combined_search returns is one of those candidates, whatever
\* alpha is; and a candidate stage 2 has no row for is scored with a raw
\* full-text score of 0.0 and returned like the others (unless the limit cuts
\* it off).
C33_OnlyCandidatesAllRanked ==
    /\ (call.op = "combined_search" /\ "stage1" \in call.answered
           /\ call.candidates # <<>>)
       => /\ call.ids = Ids(call.candidates)
          /\ DOMAIN call.ft_rows \subseteq CandidateIds
    /\ Ranked
       => /\ \A j \in 1..Len(call.result) : call.result[j].id \in CandidateIds
          /\ \A i \in 1..Len(call.candidates) :
                call.candidates[i].id \notin DOMAIN call.ft_rows
                => /\ \A j \in 1..Len(call.result) :
                         call.result[j].id = call.candidates[i].id
                         => call.result[j].score = ScoreWithoutRow(i)
                   /\ (call.variant = "search_combined"
                          \/ Len(call.candidates) <= call.limit)
                      => \E j \in 1..Len(call.result) :
                            call.result[j].id = call.candidates[i].id

\* with alpha = 0.0 search.py has returned a candidate stage 2 had no row
\* for, scored 0.0, behind one that matched the text
C33_Witness ==
    /\ Ranked
    /\ call.variant = "search"
    /\ call.alpha = Zero
    /\ Len(call.candidates) = 2
    /\ DOMAIN call.ft_rows = {1}
    /\ Len(call.result) = 2
    /\ call.result[1].id = 1
    /\ call.result[2] = ArticleMeta(0, Zero)

\* ------------------------------------------------------- job record fields
\* the fields of one job record agree with its status
FieldsAgree(j) ==
    /\ j.result # None => j.status = "done"
    /\ j.error # None => j.status = "error"
    /\ j.status # "queued" => j.started_at # None
    /\ j.finished_at # None <=> j.status \in {"done", "error"}
    /\ ~(j.result # None /\ j.error # None)

\* C34: in every state, for every record of JobStore and of _JOBS: result is
\* set only when status is done, error only when status is error, started_at
\* whenever status is not queued, finished_at exactly when status is done or
\* error, and never both result and error.
C34_JobFieldsAgree ==
    /\ \A id \in DOMAIN jobs : FieldsAgree(jobs[id])
    /\ \A id \in DOMAIN JOBS : FieldsAgree(JOBS[id])

\* a job of JobStore has ended in error and a job of _JOBS with a result
C34_Witness ==
    /\ "r1" \in DOMAIN jobs
    /\ jobs["r1"].status = "error"
    /\ jobs["r1"].error # None
    /\ jobs["r1"].finished_at # None
    /\ "r2" \in DOMAIN JOBS
    /\ JOBS["r2"].status = "done"
    /\ JOBS["r2"].result # None

\* ------------------------------------------------------ hooks of a job
\* the runner of job r has begun
RunnerBegun(r) == pc[r] \notin {"idle", "queued"}

\* C35: for every job of JobStore.start, a bind_progress that was given is
\* called exactly once, before the job coroutine starts, and an on_finalize
\* that was given is called exactly once, when the job has reached done or
\* error, whichever way the coroutine ended; a hook that was not given is
\* never called; and a hook that raises leaves the job as it would have been:
\* the coroutine still runs, and status, result and error are those of the
\* coroutine's own outcome.
C35_HooksOnceAndHarmless ==
    \A r \in Runs :
        entry[r] = "job" =>
            LET h == hooks[r]
            IN  /\ h.bind_calls =
                       IF h.bind_progress # None /\ RunnerBegun(r) THEN 1 ELSE 0
                /\ h.bind_calls = 1 => h.bind_seen = "not started"
                /\ h.fin_calls =
                       IF h.on_finalize # None /\ pc[r] = "exited" THEN 1 ELSE 0
                /\ h.fin_calls = 1 =>
                       /\ h.fin_seen \in {"done", "error"}
                       /\ jobs[r].status = h.fin_seen
                /\ RunnerBegun(r) =>
                       calls[r] >= 1 \/ (max_turns[r] <= 0 /\ pc[r] = "exited")
                /\ pc[r] = "exited" =>
                       /\ outcome[r] = "raised" =>
                             /\ jobs[r].status = "error"
                             /\ jobs[r].error = "inference error"
                             /\ jobs[r].result = None
                             /\ replies[r][Len(replies[r])].failed
                       /\ outcome[r] # "raised" =>
                             /\ jobs[r].status = "done"
                             /\ jobs[r].result = retval[r]
                             /\ jobs[r].error = None

\* a job whose hooks both raised has ended in error after a tool call, each
\* hook called once
C35_Witness ==
    /\ entry["r1"] = "job"
    /\ hooks["r1"] = [Hooks("raises", "raises") EXCEPT
                          !.bind_calls = 1, !.fin_calls = 1,
                          !.bind_seen = "not started", !.fin_seen = "error"]
    /\ jobs["r1"].status = "error"
    /\ invoked["r1"] # {}
    /\ progress_cb = None

\* ------------------------------------------------------- reuse of a token
\* the row request q presents is missing or already revoked
PresentedRowGone(q) ==
    LET id == scalar_one_or_none(RefreshToken, req[q].token_id, req[q].token)
    IN  id = 0 \/ RefreshToken[id].revoked

\* C36: POST /refresh with a well-formed refresh token whose row is missing
\* or already revoked goes on to revoke every stored, not yet revoked refresh
\* token of the user named in the token, and is answered 401 with those rows
\* revoked; no refresh token revoked that way is refreshed successfully
\* afterwards.
C36_ReuseRevokesAllSessions ==
    [][\A q \in Reqs :
          /\ (/\ req[q].op = "refresh"
              /\ req[q].pc = "select"
              /\ req'[q].pc # "select"
              /\ PresentedRowGone(q))
             => /\ req'[q].pc = "revoke"
                /\ req'[q].where = "user"
                /\ req'[q].after = 401
          /\ (/\ req[q].op = "refresh"
              /\ req[q].pc = "revoke"
              /\ req'[q].pc # "revoke")
             => /\ req'[q].pc = "commit"
                /\ req'[q].targets =
                       {id \in DOMAIN RefreshToken :
                           /\ RefreshToken[id].user_id = req[q].user
                           /\ ~RefreshToken[id].revoked}
          /\ (/\ req[q].op = "refresh"
              /\ req[q].after = 401
              /\ req[q].pc = "commit"
              /\ req'[q].pc = "done")
             => /\ req'[q].code = 401
                /\ req'[q].body = NoToken
                /\ \A id \in req[q].targets : RefreshToken'[id].revoked
          /\ RefreshSucceeds(q) => ~RefreshToken[req[q].token_id].burned]_vars

\* a token that a detected reuse had revoked has been exchanged for a new
\* pair, and the new refresh token is live
C36_Witness ==
    \E id \in DOMAIN RefreshToken, n \in DOMAIN RefreshToken, q \in Reqs :
        /\ RefreshToken[id].burned
        /\ RefreshToken[n].rotated_from = id
        /\ ~RefreshToken[n].revoked
        /\ req[q].pc = "done"
        /\ req[q].code = 200
        /\ req[q].body = RefreshToken[n].token

====
